---- MODULE Spec2Model ----
(***************************************************************************)
(* Model of the LinkedIn job harvester: the page loop of                   *)
(* EnhancedLinkedInJobHarvester.harvest_jobs, its request/retry step,      *)
(* session reset and recovery, the per-card extraction and validation,     *)
(* the Selenium scraper's search loop and the interrupt handler of         *)
(* ScraperManager.                                                         *)
(*                                                                         *)
(* Text is modelled as a sequence of one-character strings, so that        *)
(* trimming, case folding, suffix stripping and truncation are computed    *)
(* the way the Python code computes them.                                  *)
(***************************************************************************)
EXTENDS Integers, Sequences, FiniteSets, TLC

(***************************************************************************)
(* Bounds of the model and configuration values.                           *)
(***************************************************************************)

\* harvest_jobs(maximum_pages=...): the number of result pages asked for.
maximum_pages == 3

\* HarvestingConfiguration.max_requests_per_session, scaled down from the
\* default 75 so that the preemptive session reset happens within
\* maximum_pages * max_retry_attempts requests.
max_requests_per_session == 4

\* HarvestingConfiguration.break_frequency_range, scaled down from (15, 25).
break_frequency_min == 2
break_frequency_max == 3

\* HarvestingConfiguration defaults.
max_retry_attempts == 3
exponential_backoff_base == 2
minimum_job_title_length == 3
maximum_job_title_length == 200

\* Failure thresholds written as literals in harvest_jobs.
RecoveryThreshold == 2
AbortThreshold == 3

\* Default of the retry-after header and the jitter range of the 429 branch.
DefaultRetryAfter == 60
JitterMin == 15
JitterMax == 45

(***************************************************************************)
(* Text: sequences of one-character strings.                               *)
(***************************************************************************)

LowerSeq ==
    << "a","b","c","d","e","f","g","h","i","j","k","l","m",
       "n","o","p","q","r","s","t","u","v","w","x","y","z" >>

UpperSeq ==
    << "A","B","C","D","E","F","G","H","I","J","K","L","M",
       "N","O","P","Q","R","S","T","U","V","W","X","Y","Z" >>

DigitSet == { "0","1","2","3","4","5","6","7","8","9" }

Range(f) == { f[i] : i \in DOMAIN f }

\* The element of a one-element set: { e(v) : v \in {x} } computes x once
\* and names its value v.
The(S) == CHOOSE v \in S : TRUE

\* The absent value (Python None), kept apart from every text.
None == << "<None>" >>

\* re.search(r'[a-zA-Z]', c)
IsLetter(c) == c \in Range(LowerSeq) \cup Range(UpperSeq)

\* \s of the re module
IsSpace(c) == c \in { " ", "\t", "\n" }

\* \w of the re module
IsWordChar(c) == IsLetter(c) \/ c \in DigitSet \/ c = "_"

\* str.lower() and str.upper() on one character
LowerChar(c) ==
    IF \E i \in 1..26 : UpperSeq[i] = c
    THEN LowerSeq[CHOOSE i \in 1..26 : UpperSeq[i] = c]
    ELSE c

UpperChar(c) ==
    IF \E i \in 1..26 : LowerSeq[i] = c
    THEN UpperSeq[CHOOSE i \in 1..26 : LowerSeq[i] = c]
    ELSE c

Lower(s) == [i \in 1..Len(s) |-> LowerChar(s[i])]

Upper(s) == [i \in 1..Len(s) |-> UpperChar(s[i])]

\* s[:n]
Take(s, n) == IF Len(s) <= n THEN s ELSE SubSeq(s, 1, n)

\* str.strip()
Strip(s) ==
    LET nonSpace == { i \in 1..Len(s) : ~IsSpace(s[i]) }
    IN  IF nonSpace = {} THEN << >>
        ELSE LET lo == CHOOSE i \in nonSpace : \A j \in 1..(i - 1) : IsSpace(s[j])
                 hi == CHOOSE i \in nonSpace : \A j \in (i + 1)..Len(s) : IsSpace(s[j])
             IN  SubSeq(s, lo, hi)

\* re.sub(r'\s+', ' ', s): every run of whitespace becomes one space
KeepTagged(x) == x.keep

CollapseSpaces(s) ==
    LET tagged == [i \in 1..Len(s) |->
                     [ c |-> IF IsSpace(s[i]) THEN " " ELSE s[i],
                       keep |-> ~IsSpace(s[i]) \/ i = 1 \/ ~IsSpace(s[i - 1]) ]]
        kept == SelectSeq(tagged, KeepTagged)
    IN  [i \in 1..Len(kept) |-> kept[i].c]

\* needle in haystack
Contains(haystack, needle) ==
    \E i \in 1..(Len(haystack) - Len(needle) + 1) :
        SubSeq(haystack, i, i + Len(needle) - 1) = needle

\* haystack.lower().endswith(word), word given in lower case
EndsWithIgnoreCase(s, word) ==
    /\ Len(s) >= Len(word)
    /\ Lower(SubSeq(s, Len(s) - Len(word) + 1, Len(s))) = word

(***************************************************************************)
(* Per-card extraction of EnhancedLinkedInJobHarvester.                    *)
(***************************************************************************)

\* The alternatives of r'\b(new|hiring|actively recruiting)\s*$'.
LinkedInArtifacts ==
    { << "n","e","w" >>,
      << "h","i","r","i","n","g" >>,
      << "a","c","t","i","v","e","l","y"," ","r","e","c","r","u","i","t","i","n","g" >> }

\* One match of that pattern at the end of s: the word, case-insensitively,
\* preceded by a word boundary.  s carries no trailing whitespace here.
ArtifactAtEnd(s, word) ==
    /\ EndsWithIgnoreCase(s, word)
    /\ \/ Len(s) = Len(word)
       \/ ~IsWordChar(s[Len(s) - Len(word)])

\* re.sub(r'\b(new|hiring|actively recruiting)\s*$', '', s, flags=re.IGNORECASE)
StripArtifact(s) ==
    IF \E w \in LinkedInArtifacts : ArtifactAtEnd(s, w)
    THEN LET w == CHOOSE w \in LinkedInArtifacts : ArtifactAtEnd(s, w)
         IN  SubSeq(s, 1, Len(s) - Len(w))
    ELSE s

clean_extracted_text(text) ==
    IF text = << >> THEN << >>
    ELSE LET cleaned == StripArtifact(CollapseSpaces(Strip(text)))
         IN  IF Len(cleaned) > maximum_job_title_length
             THEN Strip(Take(cleaned, maximum_job_title_length))
             ELSE cleaned

\* What one selector of a fallback list does on an element: select_one finds
\* nothing ("miss"), raises ("raise"), or finds an element with text ("hit").
Miss == [kind |-> "miss", text |-> << >>]
Raise == [kind |-> "raise", text |-> << >>]
Hit(t) == [kind |-> "hit", text |-> t]

\* How a call of a function that can raise ends.
Returns(value) == [raised |-> FALSE, value |-> value]
Raises == [raised |-> TRUE, value |-> None]

\* The resolver that hands back the last usable match instead of the first.
RECURSIVE extract_last_match(_)
extract_last_match(outcomes) ==
    IF outcomes = << >> THEN None
    ELSE LET o == outcomes[Len(outcomes)]
             text == Strip(o.text)
         IN  IF o.kind = "hit" /\ text # << >> /\ Len(text) >= 2
             THEN clean_extracted_text(text)
             ELSE extract_last_match(SubSeq(outcomes, 1, Len(outcomes) - 1))

RECURSIVE extract_with_selector_fallbacks(_)
extract_with_selector_fallbacks(outcomes) ==
    IF outcomes = << >> THEN None
    ELSE LET o == Head(outcomes)
             text == Strip(o.text)
         IN  IF o.kind = "hit" /\ text # << >> /\ Len(text) >= 2
             THEN clean_extracted_text(text)
             ELSE extract_with_selector_fallbacks(Tail(outcomes))

\* job_data.get(field): falsy for None and for the empty string
Truthy(v) == v # None /\ v # << >>

(***************************************************************************)
(* EnhancedLinkedInJobHarvester._calculate_data_quality_score.  Scores are *)
(* counted in sixtieths, so that a sixth of the core fields, the bonus of  *)
(* 0.1 and the bonus of 0.05 are whole numbers; the float operations of    *)
(* the source (one division, two additions, min) are monotone, so the      *)
(* order of two scores is the order of their exact values.                 *)
(***************************************************************************)

total_fields == 6

\* 1.0
FullScore == 60

\* 0.1
SalaryBonus == 6

\* 0.05
ApplicantBonus == 3

\* bool(value) of a field: None, '' and [] are false.
Filled(value) == value \notin { None, << >> }

CoreFields == { "title", "company", "location", "job_url", "posted_date", "job_insights" }

Count(condition) == IF condition THEN 1 ELSE 0

Min(a, b) == IF a <= b THEN a ELSE b

\* The sum without the cap of 1.0.
uncapped_quality_score(job_data) ==
    (Cardinality({ f \in CoreFields : Filled(job_data[f]) }) * FullScore) \div total_fields
        + Count(Filled(job_data.salary_info)) * SalaryBonus
        + Count(Filled(job_data.applicant_count)) * ApplicantBonus

_calculate_data_quality_score(job_data) ==
    LET filled_fields ==
            Count(Filled(job_data.title)) + Count(Filled(job_data.company))
              + Count(Filled(job_data.location)) + Count(Filled(job_data.job_url))
              + Count(Filled(job_data.posted_date)) + Count(Filled(job_data.job_insights))
        base_score == (filled_fields * FullScore) \div total_fields
        bonus == Count(Filled(job_data.salary_info)) * SalaryBonus
                   + Count(Filled(job_data.applicant_count)) * ApplicantBonus
    IN  Min(FullScore, base_score + bonus)

\* What _extract_job_url_enhanced and _extract_enhanced_metadata found on a
\* card: the value of each key, None for a key they did not set.
Metadata(job_url, salary_info) ==
    [ job_url |-> job_url, posted_date |-> None, job_insights |-> None,
      salary_info |-> salary_info, applicant_count |-> None ]

NoMetadata == Metadata(None, None)

\* The record built for one card: the three texts, the URL and the
\* metadata, then the score of the record so far.  An Optional[Dict] is a
\* sequence holding the record, or the empty sequence for None (the title
\* did not resolve).
extract_comprehensive_job_data(card) ==
    The({ IF Truthy(job_data.title)
          THEN << [ title |-> job_data.title,
                    company |-> job_data.company,
                    location |-> job_data.location,
                    job_url |-> job_data.job_url,
                    posted_date |-> job_data.posted_date,
                    job_insights |-> job_data.job_insights,
                    salary_info |-> job_data.salary_info,
                    applicant_count |-> job_data.applicant_count,
                    data_quality_score |-> _calculate_data_quality_score(job_data) ] >>
          ELSE << >>
          : job_data \in
              { [ title    |-> extract_with_selector_fallbacks(card.title),
                  company  |-> extract_with_selector_fallbacks(card.company),
                  location |-> extract_with_selector_fallbacks(card.location),
                  job_url  |-> card.metadata.job_url,
                  posted_date |-> card.metadata.posted_date,
                  job_insights |-> card.metadata.job_insights,
                  salary_info |-> card.metadata.salary_info,
                  applicant_count |-> card.metadata.applicant_count ] } })

\* The upper-case indicators of the spam check.  The four emoji indicators
\* of the source are stored with lower-case letters, so they never occur in
\* title.upper() and are left out.
spam_indicators ==
    { << "U","R","G","E","N","T" >>,
      << "I","M","M","E","D","I","A","T","E" >>,
      << "H","U","R","R","Y" >>,
      << "M","A","K","E"," ","M","O","N","E","Y"," ","F","A","S","T" >>,
      << "W","O","R","K"," ","F","R","O","M"," ","H","O","M","E"," ","G","U","A","R","A","N","T","E","E","D" >> }

HasLetter(s) == \E i \in 1..Len(s) : IsLetter(s[i])

\* The acceptance decision of _validate_job_data_quality.
validate_job_data_quality(job_data) ==
    /\ Truthy(job_data.title)
    /\ LET title == Strip(job_data.title)
       IN  /\ Len(title) >= minimum_job_title_length
           /\ Len(title) <= maximum_job_title_length
           /\ ~\E ind \in spam_indicators : Contains(Upper(title), ind)

\* The in-place edits of _validate_job_data_quality on an accepted record.
FieldOrNone(v) ==
    IF Truthy(v) /\ (Len(Strip(v)) < 2 \/ ~HasLetter(Strip(v))) THEN None ELSE v

validated_job_data(job_data) ==
    [job_data EXCEPT !.company = FieldOrNone(job_data.company),
                     !.location = FieldOrNone(job_data.location)]

(***************************************************************************)
(* Pages the fetcher can answer with: job cards, each given by what the    *)
(* selectors of every field find on it.                                    *)
(***************************************************************************)

\* A title longer than maximum_job_title_length.
LongTitle == [i \in 1..(maximum_job_title_length + 1) |-> "a"]

Card(title, company, location) ==
    [title |-> title, company |-> company, location |-> location,
     metadata |-> NoMetadata, broken |-> FALSE]

\* A card with a link and a salary line.
CardDev ==
    [ Card(<< Hit(<< "D","e","v"," ","O","p","s" >>) >>, << Hit(<< "A","c","m","e" >>) >>, << Hit(<< "N","Y","C" >>) >>)
        EXCEPT !.metadata = Metadata(<< "h","t","t","p","s",":","/","/","l","n","k","d",".","i","n","/","1" >>,
                                     << "$","9","0","k" >>) ]

\* The same listing in another letter case and with surrounding blanks.
CardDevUpper == Card(<< Hit(<< " "," ","D","E","V"," ","O","P","S"," " >>) >>, << Hit(<< "a","c","m","e" >>) >>, << Miss, Hit(<< "n","y","c" >>) >>)

\* A title of digits only; company of digits only.
CardDigits == Card(<< Hit(<< "1","2","3","4","5" >>) >>, << Hit(<< "4","2" >>) >>, << >>)

\* No selector resolves the title.
CardNoTitle == Card(<< Miss, Raise, Hit(<< "x" >>) >>, << Hit(<< "A","c","m","e" >>) >>, << Hit(<< "N","Y","C" >>) >>)

\* The first patterns fail or are too short, a later one resolves.
CardFallback == Card(<< Raise, Hit(<< "x" >>), Hit(<< "Q","A"," "," "," ","L","e","a","d"," ","h","i","r","i","n","g" >>) >>, << Miss >>, << Hit(<< "N","Y","C" >>) >>)

\* The artifact word is cut off and leaves fewer than three characters.
CardShort == Card(<< Hit(<< "a","b"," ","n","e","w" >>) >>, << Hit(<< "A","c","m","e" >>) >>, << >>)

CardSpam == Card(<< Hit(<< "U","r","g","e","n","t"," ","h","i","r","e" >>) >>, << Hit(<< "A","c","m","e" >>) >>, << >>)

CardLong == Card(<< Hit(LongTitle) >>, << >>, << >>)

\* A card on which the metadata extraction raises.
CardBroken == [CardDev EXCEPT !.broken = TRUE]

\* The response bodies of the model; << >> is a page without any job card.
Bodies ==
    { << >>,
      << CardDev, CardNoTitle, CardDevUpper, CardBroken, CardFallback,
         CardShort, CardSpam, CardLong, CardDigits >> }

\* The card loop that leaves a card without job data out of both tallies.
RECURSIVE extract_cards_untallied(_, _)
extract_cards_untallied(job_cards, acc) ==
    IF job_cards = << >> THEN acc
    ELSE LET job_card == Head(job_cards)
         IN  extract_cards_untallied(Tail(job_cards),
                 The({ IF /\ ~job_card.broken
                          /\ job_data # << >>
                          /\ validate_job_data_quality(job_data[1])
                       THEN [acc EXCEPT
                               !.jobs = Append(@, validated_job_data(job_data[1])),
                               !.successful_extractions = @ + 1]
                       ELSE IF job_data = << >> THEN acc
                       ELSE [acc EXCEPT !.failed_extractions = @ + 1]
                       : job_data \in { extract_comprehensive_job_data(job_card) } }))

\* The card loop of _extract_jobs_from_html: the records appended and the
\* two tallies, card by card.
RECURSIVE extract_cards(_, _)
extract_cards(job_cards, acc) ==
    IF job_cards = << >> THEN acc
    ELSE LET job_card == Head(job_cards)
         IN  extract_cards(Tail(job_cards),
                 The({ IF /\ ~job_card.broken
                          /\ job_data # << >>
                          /\ validate_job_data_quality(job_data[1])
                       THEN [acc EXCEPT
                               !.jobs = Append(@, validated_job_data(job_data[1])),
                               !.successful_extractions = @ + 1]
                       ELSE [acc EXCEPT !.failed_extractions = @ + 1]
                       : job_data \in { extract_comprehensive_job_data(job_card) } }))

(***************************************************************************)
(* State of one run of the HTTP harvester.                                 *)
(***************************************************************************)
VARIABLES
    pc,                        \* where the run is: "new", "page_top", "attempt",
                               \* "tally", "returned", "finished", "raised", "exited"
    managed,                   \* the harvester is used as "async with ... as harvester"
    page_number,               \* loop variable of harvest_jobs
    attempt,                   \* loop variable of _execute_intelligent_request
    page_success,              \* value returned by _execute_intelligent_request
    successful_pages,
    failed_pages,
    requests_made_in_session,
    harvested_jobs_data,
    extraction_statistics,
    result,                    \* the list harvest_jobs returned
    http_client,               \* the client held: "none" (None), "open" or "closed"
    orphans,                   \* clients no longer referenced that were never closed
    last_sleep,                \* the most recent asyncio.sleep of the page in progress
    last_response,             \* what the most recent fetch attempt of that page met
    fetches,                   \* http_client.get calls that went out
    page_recoveries,           \* runs of _implement_recovery_strategy for this page
    events,                    \* what the most recent step of the harvest did, in order
    requests_since_break,      \* requests of the session since its last break
    search_url,                \* the start parameter of harvest_jobs' search_url
    interrupted,               \* ScraperManager.interrupted
    construct_failed,          \* a client or driver construction has raised
    engine,                    \* the scraper of the run: "httpx" or "selenium"
    driver,                    \* LinkedInSeleniumScraper.driver: "none" (None) or "set"
    browser,                   \* the Chrome the driver started: "none", "running", "quit"
    jobs_data,                 \* LinkedInSeleniumScraper.jobs_data
    anti_detection_system,     \* AdvancedAntiDetectionSystem: request_counter,
                               \* last_profile_rotation, current_browser_profile
    headers,                   \* http_client.headers, a dict: header name -> value
    requests_with_profile,     \* requests answered since current_browser_profile
                               \* was last selected
    op,                        \* the library function a call has applied, or "input"
    arg,                       \* the arguments of the call
    ret                        \* what the call returned

vars ==
    << pc, managed, page_number, attempt, page_success, successful_pages,
       failed_pages, requests_made_in_session, harvested_jobs_data,
       extraction_statistics, result, http_client, orphans, last_sleep,
       last_response, fetches, page_recoveries, events, requests_since_break,
       search_url, interrupted, construct_failed, engine, driver, browser,
       jobs_data, anti_detection_system, headers, requests_with_profile,
       op, arg, ret >>

\* The variables of the header rotation and of the calls of library functions,
\* which the harvest below leaves alone.
rotation_vars == << anti_detection_system, headers, requests_with_profile >>
call_vars == << op, arg, ret >>

\* The variables only the Selenium scraper works on.
selenium_vars == << engine, driver, browser, jobs_data >>

\* The variables only the HTTP harvester works on.
harvester_vars ==
    << managed, attempt, page_success, successful_pages, failed_pages,
       requests_made_in_session, harvested_jobs_data, extraction_statistics,
       http_client, orphans, last_sleep, last_response, fetches, page_recoveries,
       events, requests_since_break, search_url >>

\* asyncio.sleep calls.  secs is kept for the sleeps whose length the code
\* computes from integers (rate limit, backoff); the lengths drawn with
\* random.uniform are not represented and carry 0.
Sleep(kind, secs) == [kind |-> kind, secs |-> secs]

NoSleep == Sleep("none", 0)

\* An entry of events: a sleep, or another operation with the value it
\* worked on (the start parameter of the URL a get was sent to).
Event(kind, value) == [kind |-> kind, secs |-> value]

\* The operation e is the next thing the session has done.
Emit(sess, e) == [sess EXCEPT !.events = Append(@, e)]

\* base ** attempt
RECURSIVE Power(_, _)
Power(b, k) == IF k = 0 THEN 1 ELSE b * Power(b, k - 1)

\* A backoff of the same length on every attempt.
flat_backoff_sleep(k) == Sleep("backoff", exponential_backoff_base)

backoff_sleep(k) == Sleep("backoff", Power(exponential_backoff_base, k))

\* The retry-after header of a 429 response: absent, delay-seconds, or an
\* HTTP-date that lies secs seconds ahead.
RetryAfterHeaders ==
    { [form |-> "absent", secs |-> 0],
      [form |-> "seconds", secs |-> 5],
      [form |-> "date", secs |-> 5] }

NoHeader == [form |-> "absent", secs |-> 0]

\* int(response.headers.get('retry-after', 60)) raises ValueError on a date.
retry_after_parses(h) == h.form # "date"

retry_after_value(h) == IF h.form = "absent" THEN DefaultRetryAfter ELSE h.secs

\* What http_client.get(url) can meet.  status 0: get raised (fault says
\* what); fault "parse" on a 200: _extract_jobs_from_html raised before its
\* card loop.
Response(status, fault, body, h) ==
    [status |-> status, fault |-> fault, body |-> body, retry_after |-> h]

Responses ==
    { Response(200, "none", b, NoHeader) : b \in Bodies }
    \cup { Response(200, "parse", << >>, NoHeader) }
    \cup { Response(429, "none", << >>, h) : h \in RetryAfterHeaders }
    \cup { Response(st, "none", << >>, NoHeader) : st \in {403, 404, 410, 500} }
    \cup { Response(0, f, << >>, NoHeader) : f \in {"timeout", "error"} }

\* get on a client that was closed raises RuntimeError before sending.
ClosedClientError == Response(0, "closed", << >>, NoHeader)

NoResponse == Response(0, "never", << >>, NoHeader)

\* last_response keeps of the body of the response only whether it held
\* job cards.
Met(resp) == [resp EXCEPT !.body = IF @ = << >> THEN << >> ELSE << "job_cards" >>]

ZeroStatistics ==
    [ successful_extractions |-> 0, failed_extractions |-> 0,
      pages_with_no_jobs |-> 0, failed_requests |-> 0 ]

\* The attributes of the harvester that reset and recovery work on; raised:
\* the operation ended with an exception.
Session(client, orph, requests, jobs) ==
    [ http_client |-> client, orphans |-> orph, requests |-> requests,
      harvested_jobs_data |-> jobs, raised |-> FALSE, events |-> << >> ]

\* _initialize_http_client: httpx.AsyncClient(...) is built and assigned to
\* self.http_client, or the constructor raises.  A client that was held and
\* still open is no longer referenced by anything afterwards.
initialize_http_client(sess, ok) ==
    IF ok
    THEN Emit([sess EXCEPT !.http_client = "open",
                           !.orphans = IF sess.http_client = "open" THEN @ + 1 ELSE @],
              Event("new_client", 0))
    ELSE [sess EXCEPT !.raised = TRUE]

\* _cleanup_http_client and the first step of a reset: aclose on the client held.
close_client(sess) ==
    IF sess.http_client # "none"
    THEN Emit([sess EXCEPT !.http_client = "closed"], Event("aclose", 0))
    ELSE sess

\* A reset that builds the new client without closing the one held.
reset_without_close(sess, ok) ==
    LET built == initialize_http_client(sess, ok)
    IN  IF built.raised THEN built ELSE [built EXCEPT !.requests = 0]

\* A reset that leaves requests_made_in_session as it is.
reset_keeping_count(sess, ok) ==
    LET closed == close_client(sess)
        built == initialize_http_client(
                     IF ok THEN Emit(closed, Event("new_system", 0)) ELSE closed, ok)
    IN  IF built.raised THEN built ELSE Emit(built, Event("session_start", 0))

\* _reset_session_completely: close the client, build the anti-detection
\* system and the client anew (ok = FALSE: one of the two constructors
\* raises), then zero the counter and renew session_start_timestamp.
reset_session_completely(sess, ok) ==
    LET closed == close_client(sess)
        built == initialize_http_client(
                     IF ok THEN Emit(closed, Event("new_system", 0)) ELSE closed, ok)
    IN  IF built.raised THEN built
        ELSE Emit([built EXCEPT !.requests = 0], Event("session_start", 0))

\* A recovery that also starts the record list afresh.
recovery_dropping_records(sess, ok) ==
    [reset_session_completely(sess, ok) EXCEPT !.harvested_jobs_data = << >>]

\* A recovery that keeps the client and the anti-detection system it has.
recovery_keeping_client(sess, ok) ==
    [Emit(sess, Sleep("cooldown", 0)) EXCEPT !.requests = 0]

\* _implement_recovery_strategy: the reset, the cooldown, the counter.
implement_recovery_strategy(sess, ok) ==
    LET reset == reset_session_completely(sess, ok)
    IN  IF reset.raised THEN reset
        ELSE [Emit(reset, Sleep("cooldown", 0)) EXCEPT !.requests = 0]

\* A page loop whose handler logs the exception and raises it again.
page_loop_reraise(failed) ==
    [failed_pages |-> failed + 1, stop |-> TRUE, reraise |-> TRUE]

\* The "except Exception" of the page loop: the new tally and whether the
\* loop breaks.
page_loop_except(failed) ==
    [failed_pages |-> failed + 1, stop |-> failed + 1 >= AbortThreshold, reraise |-> FALSE]

\* A retry loop that does not count the pass it has just made.
same_attempt(k) == k

\* "for attempt in range(max_retry_attempts)": the pass after pass k.
next_attempt(k) == k + 1

\* A pagination that counts pages from 1.
search_start_from_one(page) == (page + 1) * 25

\* "search_parameters['start'] = page_number * 25": the offset that tells
\* one search URL of a harvest from another.
search_start(page) == page * 25

\* should_take_break with the interval random.randint drew.
should_take_break(requests_made, break_interval) ==
    requests_made > 0 /\ requests_made % break_interval = 0

(***************************************************************************)
(* _extract_jobs_from_html on a page that parsed.                          *)
(***************************************************************************)

\* The card loop on each body of the model: the records it appends to
\* harvested_jobs_data, in order, and its two tallies.
PageExtraction ==
    [ body \in Bodies |->
        extract_cards(body,
            [jobs |-> << >>, successful_extractions |-> 0, failed_extractions |-> 0]) ]

\* An extraction that counts a page without job cards as a failed
\* extraction.
extract_jobs_counting_failure(body, jobs, stats) ==
    IF body = << >>
    THEN [ jobs |-> jobs,
           stats |-> [stats EXCEPT !.failed_extractions = @ + 1],
           slept |-> FALSE ]
    ELSE The({ [ jobs |-> jobs \o done.jobs,
                 stats |-> [stats EXCEPT
                              !.successful_extractions = @ + done.successful_extractions,
                              !.failed_extractions = @ + done.failed_extractions],
                 slept |-> TRUE ] : done \in { PageExtraction[body] } })

extract_jobs_from_html(body, jobs, stats) ==
    IF body = << >>
    THEN [ jobs |-> jobs,
           stats |-> [stats EXCEPT !.pages_with_no_jobs = @ + 1],
           slept |-> FALSE ]
    ELSE The({ [ jobs |-> jobs \o done.jobs,
                 stats |-> [stats EXCEPT
                              !.successful_extractions = @ + done.successful_extractions,
                              !.failed_extractions = @ + done.failed_extractions],
                 slept |-> TRUE ] : done \in { PageExtraction[body] } })

\* A pacing delay that is slept only before the first request of a session.
apply_delay_on_fresh_session(sess) ==
    IF sess.requests = 0 THEN Emit(sess, Sleep("pacing", 0)) ELSE sess

\* _apply_intelligent_delay as the request step sees it: the progressive
\* delay is slept on every call (its length is _apply_intelligent_delay of
\* the calls below).
apply_delay(sess) == Emit(sess, Sleep("pacing", 0))

\* A request step that keeps no count of the responses.
count_no_response(sess) == sess

\* "self.requests_made_in_session += 1" on the line after get returned.
count_response(sess) == [sess EXCEPT !.requests = @ + 1]

\* A request step that gives the page up on a 404 only.
not_found_404_only(status) == status = 404

\* response.status_code in [404, 410]
not_found(status) == status \in {404, 410}

(***************************************************************************)
(* One pass of the attempt loop of _execute_intelligent_request: the       *)
(* pacing delay, the request and the handling of what came back.           *)
(* verdict: "true"/"false" for the value returned, "retry" when the loop   *)
(* goes on.                                                                *)
(***************************************************************************)
execute_attempt(url, sess, stats, k, resp, jitter, recoveryOk) ==
    LET paced == apply_delay(sess)
        \* get on a closed client raises before anything is sent
        sent == IF resp.fault = "closed" THEN paced ELSE Emit(paced, Event("get", url))
        answered == count_response(sent)
        base == [ sess |-> sent, stats |-> stats,
                  sleep |-> Sleep("pacing", 0), verdict |-> "retry", recovered |-> FALSE,
                  construct_failed |-> FALSE ]
        backoff(after) == [base EXCEPT !.sess = Emit(after, backoff_sleep(k)),
                                       !.sleep = backoff_sleep(k)]
    IN  CASE resp.status = 0 ->
                \* TimeoutException, ConnectError or any other exception of get
                backoff(sent)
          [] resp.status = 200 /\ resp.fault = "parse" ->
                backoff(answered)
          [] resp.status = 200 /\ resp.fault # "parse" ->
                The({ [base EXCEPT
                         !.sess = [(IF page.slept
                                    THEN Emit(answered, Sleep("reading", 0))
                                    ELSE answered)
                                   EXCEPT !.harvested_jobs_data = page.jobs],
                         !.stats = page.stats,
                         !.sleep = IF page.slept THEN Sleep("reading", 0) ELSE @,
                         !.verdict = "true"]
                      : page \in { extract_jobs_from_html(
                                      resp.body, sess.harvested_jobs_data, stats) } })
          [] resp.status = 429 ->
                IF retry_after_parses(resp.retry_after)
                THEN The({ [base EXCEPT !.sess = Emit(answered, pause), !.sleep = pause]
                           : pause \in { Sleep("rate_limit",
                                               retry_after_value(resp.retry_after) + jitter) } })
                ELSE backoff(answered)
          [] resp.status = 403 ->
                LET rec == implement_recovery_strategy(answered, recoveryOk)
                IN  IF rec.raised
                    THEN [base EXCEPT !.sess = Emit([rec EXCEPT !.raised = FALSE],
                                                    backoff_sleep(k)),
                                      !.sleep = backoff_sleep(k), !.recovered = TRUE,
                                      !.construct_failed = TRUE]
                    ELSE [base EXCEPT !.sess = rec, !.sleep = Sleep("cooldown", 0),
                                      !.verdict = "false", !.recovered = TRUE]
          [] not_found(resp.status) ->
                [base EXCEPT !.sess = answered, !.verdict = "false"]
          [] OTHER ->
                backoff(answered)

(***************************************************************************)
(* The run of the HTTP harvester.                                          *)
(***************************************************************************)
Init ==
    /\ engine \in {"httpx", "selenium"}
    /\ pc = "new"
    /\ managed \in (IF engine = "httpx" THEN BOOLEAN ELSE {FALSE})
    /\ driver = "none"
    /\ browser = "none"
    /\ jobs_data = << >>
    /\ page_number = 0
    /\ attempt = 0
    /\ page_success = FALSE
    /\ successful_pages = 0
    /\ failed_pages = 0
    /\ requests_made_in_session = 0
    /\ harvested_jobs_data = << >>
    /\ extraction_statistics = ZeroStatistics
    /\ result = << >>
    /\ http_client = "none"
    /\ orphans = 0
    /\ last_sleep = NoSleep
    /\ last_response = Met(NoResponse)
    /\ fetches = 0
    /\ page_recoveries = 0
    /\ events = << >>
    /\ requests_since_break = 0
    /\ search_url = 0
    /\ interrupted = FALSE
    /\ construct_failed = FALSE
    /\ anti_detection_system = None
    /\ headers = << >>
    /\ requests_with_profile = 0
    /\ op = "none"
    /\ arg = None
    /\ ret = None

CurrentSession ==
    Session(http_client, orphans, requests_made_in_session, harvested_jobs_data)

\* The session variables take the values of sess.
SetSession(sess) ==
    /\ http_client' = sess.http_client
    /\ orphans' = sess.orphans
    /\ requests_made_in_session' = sess.requests
    /\ harvested_jobs_data' = sess.harvested_jobs_data

\* harvest_jobs returns the accumulated list.
ReturnList ==
    /\ pc' = "returned"
    /\ result' = harvested_jobs_data'

\* The for loop moves to the next page, or ends and the list is returned;
\* stop: the loop is left with break.
LoopOn(stop) ==
    IF stop \/ page_number + 1 >= maximum_pages
    THEN ReturnList /\ page_number' = page_number
    ELSE /\ pc' = "page_top"
         /\ page_number' = page_number + 1
         /\ result' = result

\* A tally of consecutive failures: a successful page starts it afresh.
consecutive_failures(failed) == 0

\* The success branch of the page loop: successful_pages is raised and
\* failed_pages is not assigned.
failed_after_success(failed) == failed

\* A page loop that starts the recovery only at the tally that ends it.
needs_recovery_at_abort(failed) == failed >= AbortThreshold

\* "if failed_pages >= 2" of the failure branch of the page loop.
needs_recovery(failed) == failed >= RecoveryThreshold

\* An exception reached "except Exception" of the page loop.
PageLoopExcept ==
    LET handled == page_loop_except(failed_pages)
    IN  /\ failed_pages' = handled.failed_pages
        /\ IF handled.reraise
           THEN pc' = "raised" /\ page_number' = page_number /\ result' = result
           ELSE LoopOn(handled.stop)

\* "async with EnhancedLinkedInJobHarvester(...) as harvester": __aenter__
\* builds the client, then harvest_jobs is called; a constructor that
\* raises ends the run before harvest_jobs is called.
aenter ==
    /\ engine = "httpx"
    /\ pc = "new"
    /\ UNCHANGED selenium_vars
    /\ UNCHANGED << rotation_vars, call_vars >>
    /\ managed
    /\ \E ok \in BOOLEAN :
         LET sess == initialize_http_client(CurrentSession, ok)
         IN  /\ SetSession(sess)
             /\ construct_failed' = sess.raised
             /\ events' = sess.events
             /\ pc' = IF sess.raised THEN "raised"
                      ELSE IF maximum_pages > 0 THEN "page_top" ELSE "returned"
    /\ UNCHANGED << managed, page_number, attempt, page_success, successful_pages,
                    failed_pages, extraction_statistics, result,
                    last_sleep, last_response, fetches, page_recoveries,
                    requests_since_break, search_url, interrupted >>

\* harvest_jobs called on a harvester that was not entered as a context:
\* http_client is still None.
harvest_jobs_call ==
    /\ engine = "httpx"
    /\ pc = "new"
    /\ UNCHANGED selenium_vars
    /\ UNCHANGED << rotation_vars, call_vars >>
    /\ ~managed
    /\ pc' = IF maximum_pages > 0 THEN "page_top" ELSE "returned"
    /\ UNCHANGED << managed, page_number, attempt, page_success, successful_pages,
                    failed_pages, requests_made_in_session, harvested_jobs_data,
                    extraction_statistics, result, http_client, orphans, last_sleep,
                    last_response, fetches, page_recoveries, events,
                    requests_since_break, search_url, interrupted, construct_failed >>

\* The top of one page iteration, up to the attempt loop: the session
\* health check with its reset, the break, and the client built on demand
\* at the head of _execute_intelligent_request.
page_top ==
    /\ pc = "page_top"
    /\ UNCHANGED selenium_vars
    /\ UNCHANGED << rotation_vars, call_vars >>
    /\ LET needReset == requests_made_in_session >= max_requests_per_session
       IN  \E resetOk \in (IF needReset THEN BOOLEAN ELSE {TRUE}),
              break_interval \in break_frequency_min..break_frequency_max :
             LET afterReset == IF needReset
                               THEN reset_session_completely(CurrentSession, resetOk)
                               ELSE CurrentSession
                 takeBreak == /\ ~afterReset.raised
                              /\ should_take_break(afterReset.requests, break_interval)
                 afterBreak == IF takeBreak
                               THEN Emit(afterReset, Sleep("break", 0))
                               ELSE afterReset
                 needInit == ~afterReset.raised /\ afterReset.http_client = "none"
             IN  \E initOk \in (IF needInit THEN BOOLEAN ELSE {TRUE}) :
                   LET sess == IF needInit
                               THEN initialize_http_client(afterBreak, initOk)
                               ELSE afterBreak
                   IN  /\ SetSession([sess EXCEPT !.raised = FALSE])
                       /\ events' = sess.events
                       /\ requests_since_break' =
                            IF takeBreak \/ (needReset /\ ~afterReset.raised)
                            THEN 0 ELSE requests_since_break
                       /\ search_url' = IF afterReset.raised THEN search_url
                                        ELSE search_start(page_number)
                       /\ construct_failed' = (construct_failed \/ sess.raised)
                       /\ last_sleep' = IF takeBreak THEN Sleep("break", 0) ELSE NoSleep
                       /\ last_response' = Met(NoResponse)
                       /\ page_recoveries' = 0
                       /\ attempt' = 0
                       /\ IF sess.raised
                          THEN PageLoopExcept
                          ELSE /\ pc' = "attempt"
                               /\ UNCHANGED << page_number, failed_pages, result >>
    /\ UNCHANGED << managed, page_success, successful_pages, extraction_statistics, fetches, interrupted >>

\* One pass of the attempt loop; when the passes are used up the request
\* step gives the page up and returns False.
attempt_step ==
    /\ pc = "attempt"
    /\ UNCHANGED selenium_vars
    /\ UNCHANGED << rotation_vars, call_vars >>
    /\ LET closed == http_client = "closed"
       IN  \E resp \in (IF closed THEN {ClosedClientError} ELSE Responses),
              jitter \in {JitterMin, JitterMax},
              recoveryOk \in BOOLEAN :
             /\ (resp.status = 429 /\ retry_after_parses(resp.retry_after)) \/ jitter = JitterMin
             /\ resp.status = 403 \/ recoveryOk
             /\ \E out \in { execute_attempt(search_url, CurrentSession,
                                              extraction_statistics, attempt, resp,
                                              jitter, recoveryOk) } :
                LET exhausted == /\ out.verdict = "retry"
                                 /\ next_attempt(attempt) >= max_retry_attempts
                IN  /\ SetSession(out.sess)
                    /\ events' = out.sess.events
                    /\ requests_since_break' =
                         IF out.sess.requests = 0 THEN 0
                         ELSE requests_since_break
                                + (out.sess.requests - requests_made_in_session)
                    /\ extraction_statistics' =
                         IF exhausted
                         THEN [out.stats EXCEPT !.failed_requests = @ + 1]
                         ELSE out.stats
                    /\ last_sleep' = out.sleep
                    /\ last_response' = Met(resp)
                    /\ fetches' = IF closed THEN fetches ELSE fetches + 1
                    /\ page_recoveries' = IF out.recovered THEN page_recoveries + 1 ELSE page_recoveries
                    /\ construct_failed' = (construct_failed \/ out.construct_failed)
                    /\ attempt' = IF out.verdict = "retry"
                                   THEN next_attempt(attempt) ELSE attempt
                    /\ page_success' = (out.verdict = "true")
                    /\ pc' = IF out.verdict = "retry" /\ ~exhausted THEN "attempt" ELSE "tally"
    /\ UNCHANGED << managed, page_number, successful_pages, failed_pages, result,
                    search_url, interrupted >>

\* The tally of the page in harvest_jobs: success, or failure with the
\* recovery at two failures and the break at three.
tally ==
    /\ pc = "tally"
    /\ UNCHANGED selenium_vars
    /\ UNCHANGED << rotation_vars, call_vars >>
    /\ IF page_success
       THEN /\ successful_pages' = successful_pages + 1
            /\ failed_pages' = failed_after_success(failed_pages)
            /\ UNCHANGED << http_client, orphans, requests_made_in_session,
                            harvested_jobs_data, last_sleep, page_recoveries,
                            requests_since_break, construct_failed >>
            /\ events' = << >>
            /\ LoopOn(FALSE)
       ELSE LET failed == failed_pages + 1
                needRecovery == needs_recovery(failed)
            IN  \E recoveryOk \in (IF needRecovery THEN BOOLEAN ELSE {TRUE}) :
                  LET sess == IF needRecovery
                              THEN implement_recovery_strategy(CurrentSession, recoveryOk)
                              ELSE CurrentSession
                  IN  /\ SetSession([sess EXCEPT !.raised = FALSE])
                      /\ events' = sess.events
                      /\ requests_since_break' =
                           IF needRecovery /\ ~sess.raised THEN 0 ELSE requests_since_break
                      /\ page_recoveries' = IF needRecovery THEN page_recoveries + 1 ELSE page_recoveries
                      /\ construct_failed' = (construct_failed \/ sess.raised)
                      /\ last_sleep' = IF needRecovery /\ ~sess.raised
                                       THEN Sleep("cooldown", 0) ELSE last_sleep
                      /\ successful_pages' = successful_pages
                      /\ IF sess.raised
                         THEN LET handled == page_loop_except(failed)
                              IN  /\ failed_pages' = handled.failed_pages
                                  /\ IF handled.reraise
                                     THEN /\ pc' = "raised"
                                          /\ UNCHANGED << page_number, result >>
                                     ELSE LoopOn(handled.stop)
                         ELSE /\ failed_pages' = failed
                              /\ LoopOn(failed >= AbortThreshold)
    /\ UNCHANGED << managed, attempt, page_success, extraction_statistics, last_response,
                    fetches, search_url, interrupted >>

\* __aexit__ after harvest_jobs returned inside the "async with" block.
aexit ==
    /\ pc = "returned"
    /\ UNCHANGED selenium_vars
    /\ UNCHANGED << rotation_vars, call_vars >>
    /\ managed
    /\ SetSession(close_client(CurrentSession))
    /\ events' = close_client(CurrentSession).events
    /\ pc' = "finished"
    /\ UNCHANGED << managed, page_number, attempt, page_success, successful_pages,
                    failed_pages, extraction_statistics, result,
                    last_sleep, last_response, fetches, page_recoveries,
                    requests_since_break, search_url, interrupted, construct_failed >>

HarvestRunning == pc \in {"page_top", "attempt", "tally"}

\* ScraperManager._signal_handler on SIGINT: the flag is set and sys.exit
\* raises SystemExit where the run stands.  No handler of the harvester
\* catches it: the frame of harvest_jobs is unwound, its locals are gone,
\* and the "async with" block is left through __aexit__.
signal_handler ==
    /\ HarvestRunning
    /\ UNCHANGED selenium_vars
    /\ UNCHANGED << rotation_vars, call_vars >>
    /\ interrupted' = TRUE
    /\ SetSession(IF managed THEN close_client(CurrentSession) ELSE CurrentSession)
    /\ pc' = "exited"
    /\ page_number' = 0
    /\ attempt' = 0
    /\ page_success' = FALSE
    /\ successful_pages' = 0
    /\ failed_pages' = 0
    /\ page_recoveries' = 0
    /\ last_sleep' = NoSleep
    /\ last_response' = Met(NoResponse)
    /\ events' = << >>
    /\ search_url' = 0
    /\ UNCHANGED << managed, extraction_statistics, result,
                    fetches, requests_since_break, construct_failed >>

(***************************************************************************)
(* The run of the Selenium scraper: LinkedInSeleniumScraper.__init__ and   *)
(* search_jobs.                                                            *)
(***************************************************************************)

\* The "N/A" that extract_job_data_from_card stores for a field no selector
\* resolved.
NotAvailable == << "N","/","A" >>

SeleniumJob(title, company) == [title |-> title, company |-> company]

JobDev == SeleniumJob(<< "D","e","v" >>, << "A","c","m","e" >>)
JobQA == SeleniumJob(<< "Q","A" >>, << "A","c","m","e" >>)
JobNoCompany == SeleniumJob(<< "D","e","v" >>, NotAvailable)

\* What extract_job_data_from_card yields for the cards of one page.
SeleniumPages == { << >>, << JobDev, JobNoCompany, JobDev >>, << JobQA, JobDev >> }

\* f"{job_data['title']}_{job_data['company']}"
job_signature(job_data) == job_data.title \o << "_" >> \o job_data.company

\* _validate_job_data against the records held.
selenium_validate_job_data(job_data, held) ==
    /\ job_data.title # << >> /\ job_data.title # NotAvailable
    /\ job_data.company # << >> /\ job_data.company # NotAvailable
    /\ \A i \in 1..Len(held) : job_signature(held[i]) # job_signature(job_data)

\* The card loop of extract_jobs_from_page.
RECURSIVE extract_jobs_from_page(_, _)
extract_jobs_from_page(cards, held) ==
    IF cards = << >> THEN held
    ELSE extract_jobs_from_page(Tail(cards),
             IF selenium_validate_job_data(Head(cards), held)
             THEN Append(held, Head(cards))
             ELSE held)

Selenium(d, b) == [driver |-> d, browser |-> b]

\* A close_driver that quits the browser and keeps the driver object.
close_driver_keeping_it(sel) ==
    IF sel.driver = "set" THEN Selenium("set", "quit") ELSE sel

\* close_driver: quit the driver held, whatever quit does, and drop it.
close_driver(sel) ==
    IF sel.driver = "set" THEN Selenium("none", "quit") ELSE sel

SetSelenium(sel) ==
    /\ driver' = sel.driver
    /\ browser' = sel.browser

\* search_jobs returns self.jobs_data; its finally clause closes the driver.
SeleniumReturn ==
    /\ SetSelenium(close_driver(Selenium(driver, browser)))
    /\ pc' = "selenium_returned"
    /\ result' = jobs_data'

\* LinkedInSeleniumScraper(...): setup_driver starts Chrome and configures
\* it.  "no_chrome": every way to start it failed; "configure": the started
\* driver raised while being configured and is quit before the re-raise.
selenium_init ==
    /\ engine = "selenium"
    /\ pc = "new"
    /\ \E outcome \in {"ok", "no_chrome", "configure"} :
         /\ SetSelenium(CASE outcome = "ok" -> Selenium("set", "running")
                          [] outcome = "no_chrome" -> Selenium("none", "none")
                          [] OTHER -> Selenium("set", "quit"))
         /\ construct_failed' = (outcome # "ok")
         /\ pc' = IF outcome = "ok" THEN "selenium_ready" ELSE "raised"
    /\ UNCHANGED << engine, jobs_data, page_number, result, interrupted >>
    /\ UNCHANGED harvester_vars
    /\ UNCHANGED << rotation_vars, call_vars >>

\* search_jobs up to the page loop: the driver check, the navigation to the
\* jobs page and the search form.
search_jobs ==
    /\ engine = "selenium"
    /\ pc \in {"selenium_ready", "selenium_returned"}
    /\ page_number' = 0
    /\ IF driver = "none"
       THEN /\ pc' = "selenium_refused"
            /\ UNCHANGED << driver, browser, jobs_data, result >>
       ELSE \E outcome \in {"searched", "not_navigated", "not_searched", "error"} :
              /\ jobs_data' = jobs_data
              /\ IF outcome = "searched" /\ maximum_pages > 0
                 THEN /\ pc' = "selenium_page"
                      /\ UNCHANGED << driver, browser, result >>
                 ELSE SeleniumReturn
    /\ UNCHANGED << engine, interrupted, construct_failed >>
    /\ UNCHANGED harvester_vars
    /\ UNCHANGED << rotation_vars, call_vars >>

\* One iteration of the page loop of search_jobs.
selenium_page ==
    /\ pc = "selenium_page"
    /\ \E outcome \in {"loaded", "not_loaded", "error"},
          cards \in SeleniumPages,
          next_ok \in BOOLEAN :
         /\ outcome = "loaded" \/ (cards = << >> /\ next_ok)
         /\ jobs_data' = IF outcome = "loaded"
                         THEN extract_jobs_from_page(cards, jobs_data)
                         ELSE jobs_data
         /\ LET last == page_number + 1 >= maximum_pages
                leave == \/ outcome = "not_loaded"
                         \/ outcome = "loaded" /\ ~last /\ ~next_ok
            IN  IF leave \/ last
                THEN SeleniumReturn /\ page_number' = page_number
                ELSE /\ pc' = "selenium_page"
                     /\ page_number' = page_number + 1
                     /\ UNCHANGED << driver, browser, result >>
    /\ UNCHANGED << engine, interrupted, construct_failed >>
    /\ UNCHANGED harvester_vars
    /\ UNCHANGED << rotation_vars, call_vars >>

\* ScraperManager._signal_handler while search_jobs runs: the flag, quit on
\* the driver, and SystemExit, which leaves search_jobs through its finally
\* clause.
selenium_signal_handler ==
    /\ pc = "selenium_page"
    /\ interrupted' = TRUE
    /\ SetSelenium(close_driver(Selenium(driver, "quit")))
    /\ pc' = "exited"
    /\ page_number' = 0
    /\ UNCHANGED << engine, jobs_data, result, construct_failed >>
    /\ UNCHANGED harvester_vars
    /\ UNCHANGED << rotation_vars, call_vars >>

Next ==
    \/ aenter
    \/ harvest_jobs_call
    \/ page_top
    \/ attempt_step
    \/ tally
    \/ aexit
    \/ signal_handler
    \/ selenium_init
    \/ search_jobs
    \/ selenium_page
    \/ selenium_signal_handler

Spec == Init /\ [][Next]_vars

TypeOK ==
    /\ pc \in { "new", "page_top", "attempt", "tally", "returned", "finished", "raised",
                "exited", "selenium_ready", "selenium_page", "selenium_returned",
                "selenium_refused" }
    /\ page_number \in 0..maximum_pages
    /\ attempt \in 0..max_retry_attempts

(***************************************************************************)
(* Properties of the harvest.                                              *)
(***************************************************************************)

IsPrefix(s, t) == Len(s) <= Len(t) /\ SubSeq(t, 1, Len(s)) = s

\* The case-folded, trimmed (title, company, location) of a record.
TupleKey(job) ==
    << Strip(Lower(job.title)), Strip(Lower(job.company)), Strip(Lower(job.location)) >>

\* JobDataValidator.remove_duplicates: the signature of a record,
\* f"{title}|{company}|{location}" of its case-folded and trimmed title,
\* company and location.
signature(job) ==
    Strip(Lower(job.title)) \o << "|" >> \o Strip(Lower(job.company))
        \o << "|" >> \o Strip(Lower(job.location))

\* The steps harvest_jobs can still take: one for the top of every page
\* left, one for each pass of its attempt loop, one for its tally, and the
\* return.
PageCost == max_retry_attempts + 2

HarvestVariant ==
    CASE pc = "new" -> maximum_pages * PageCost + 3
      [] pc = "page_top" -> (maximum_pages - page_number) * PageCost + 2
      [] pc = "attempt" -> (maximum_pages - page_number) * PageCost + 1 - attempt
      [] pc = "tally" -> (maximum_pages - page_number - 1) * PageCost + 3
      [] pc = "returned" -> 1
      [] OTHER -> 0

\* C1: the tally of failed pages never exceeds 3, the count at which the
\* harvest stops.
C1_TallyNeverExceedsCeiling == failed_pages <= AbortThreshold

\* C2: harvest_jobs terminates and issues at most maximum_pages *
\* max_retry_attempts fetch requests: every step of an HTTP run lowers a
\* natural-number measure of the work left, and the count of requests sent
\* stays within the bound.
C2_BoundedFetches ==
    [][engine = "httpx" =>
          /\ HarvestVariant' < HarvestVariant
          /\ HarvestVariant' >= 0
          /\ fetches' <= maximum_pages * max_retry_attempts]_vars

\* C2 witness: a harvest that returned after using every attempt of every page.
C2_EveryAttemptUsed ==
    pc = "returned" /\ fetches = maximum_pages * max_retry_attempts

\* C3: after a 429 that is not the last attempt of its page the orchestrator
\* sleeps for the server-suggested retry-after plus the jitter before it
\* requests the page again.
C3_SleepsRetryAfterPlusJitter ==
    (pc = "attempt" /\ last_response.status = 429) =>
        /\ last_sleep.kind = "rate_limit"
        /\ last_sleep.secs >= retry_after_value(last_response.retry_after) + JitterMin
        /\ last_sleep.secs <= retry_after_value(last_response.retry_after) + JitterMax

\* C4: records once accumulated are never removed or altered, whatever a
\* step does (page failure, session reset, recovery), and the list returned,
\* also on the early stop at the failure ceiling, is the accumulated list.
C4_RecordsKept ==
    [][/\ IsPrefix(harvested_jobs_data, harvested_jobs_data')
       /\ (pc' = "returned" /\ pc # "returned") => result' = harvested_jobs_data']_vars

\* C4 witness: the harvest stopped at the failure ceiling and returned records.
C4_StoppedAtCeilingWithRecords ==
    pc = "returned" /\ failed_pages >= AbortThreshold /\ result # << >>

\* C5: the list returned by harvest_jobs never holds two records with equal
\* case-folded, trimmed (title, company, location).
C5_NoDuplicateSignatures ==
    pc = "returned" =>
        \A i, j \in 1..Len(result) :
            i # j => TupleKey(result[i]) # TupleKey(result[j])

\* C6: every record returned has a title of 3 to 200 characters with at
\* least one letter.
C6_TitlesWellFormed ==
    pc = "returned" =>
        \A i \in 1..Len(result) :
            /\ Len(result[i].title) >= minimum_job_title_length
            /\ Len(result[i].title) <= maximum_job_title_length
            /\ HasLetter(result[i].title)

\* C7: no step of a running harvest_jobs ends it with an exception raised
\* to the caller: whatever the fetch or the parsing met, the run goes on to
\* a retry, to the tally or to the next page, or returns, and what it
\* returns is the accumulated list.
C7_ErrorsNeverSurface ==
    [][(HarvestRunning /\ ~interrupted') =>
          /\ pc' \in {"page_top", "attempt", "tally", "returned"}
          /\ pc' = "returned" => result' = harvested_jobs_data']_vars

\* C7 witness: the harvest returned although the last fetch it made raised
\* or its page did not parse.
C7_FaultAbsorbed ==
    /\ pc = "returned"
    /\ last_response.fault \in {"timeout", "error", "parse"}
    /\ failed_pages > 0

\* C8: when the construction of the HTTP client fails the error reaches the
\* caller before any page is fetched or tallied.
C8_ConstructionFailurePropagates ==
    (engine = "httpx" /\ construct_failed) =>
        /\ pc = "raised"
        /\ fetches = 0
        /\ successful_pages = 0
        /\ failed_pages = 0

C10_CancelSeenAtLoopTop ==
    [][(engine = "httpx" /\ ~interrupted /\ interrupted') => pc = "page_top"]_vars

(***************************************************************************)
(* Properties of the request step and of the page loop, stated on what a   *)
(* step did (events) and on the state it left.                             *)
(***************************************************************************)

IsGet(e) == e.kind = "get"

\* The gets among the operations of a step.
Gets(evts) == SelectSeq(evts, IsGet)

\* A step of the harvest that the interrupt handler did not take.
HarvestStep == HarvestRunning /\ pc' # "exited"

\* What the step does that meets a 403 and recovers: the pacing delay and
\* the get, then the client closed, the new anti-detection system, the new
\* client, the session restarted and the cooldown.
ForbiddenRecovered ==
    << Sleep("pacing", 0), Event("get", search_url), Event("aclose", 0),
       Event("new_system", 0), Event("new_client", 0), Event("session_start", 0),
       Sleep("cooldown", 0) >>

\* C21: a pass of the attempt loop that meets a 403 runs the recovery
\* strategy after its get: client closed, anti-detection system and client
\* built anew, counter zeroed, cooldown; the request step then returns
\* False.  Should a constructor of the recovery raise, the client stays
\* closed.  Either way no further get goes out for the page, and the tally
\* that follows counts the page as failed.
C21_ForbiddenRecoversThenFails ==
    [][HarvestStep =>
          /\ (pc = "attempt" /\ last_response'.status = 403) =>
                \/ /\ events' = ForbiddenRecovered
                   /\ http_client' = "open"
                   /\ requests_made_in_session' = 0
                   /\ pc' = "tally"
                   /\ ~page_success'
                \/ /\ construct_failed'
                   /\ events' = << Sleep("pacing", 0), Event("get", search_url),
                                   Event("aclose", 0), backoff_sleep(attempt) >>
                   /\ http_client' = "closed"
          /\ (pc = "attempt" /\ page_recoveries > 0) => Gets(events') = << >>
          /\ (pc = "tally" /\ ~page_success) =>
                (failed_pages' > failed_pages /\ successful_pages' = successful_pages)]_vars

\* C21 witness: the request step has returned False after a 403 and its
\* recovery; the page is about to be tallied.
C21_RecoveredBeforeTally ==
    /\ pc = "tally"
    /\ last_response.status = 403
    /\ events = ForbiddenRecovered
    /\ ~page_success
    /\ requests_made_in_session = 0

\* C22: a pass that meets a 404 or a 410 ends the request step at once with
\* False: the pass has done nothing but its pacing delay and its get (no
\* backoff sleep, no recovery), no further pass is made, and the tally that
\* follows counts the page as failed.
C22_NotFoundAbandonsPage ==
    [][HarvestStep =>
          /\ (pc = "attempt" /\ last_response'.status \in {404, 410}) =>
                /\ events' = << Sleep("pacing", 0), Event("get", search_url) >>
                /\ pc' = "tally"
                /\ ~page_success'
                /\ attempt' = attempt
                /\ page_recoveries' = page_recoveries
                /\ fetches' = fetches + 1
          /\ (pc = "tally" /\ last_response.status \in {404, 410}) =>
                (failed_pages' > failed_pages /\ successful_pages' = successful_pages)]_vars

\* C22 witness: the first response of a page was a 410 and the page has
\* been counted as failed.
C22_GoneCountedFailed ==
    /\ pc = "page_top"
    /\ last_response.status = 410
    /\ attempt = 0
    /\ failed_pages = 1
    /\ fetches = 1

\* What the claim calls a transient outcome: get raised (timeout,
\* connection error, any other exception), or the status is none of 200,
\* 429, 403, 404, 410.
Transient(resp) == resp.status \notin {200, 429, 403, 404, 410}

\* C23: pass k of the attempt loop (k from 0) that ends in a transient
\* outcome sleeps exponential_backoff_base^k seconds as its last operation;
\* the same page is then tried again, with the same URL, unless that was
\* pass max_retry_attempts - 1, after which the request step returns False.
C23_BackoffThenRetry ==
    [][(HarvestStep /\ pc = "attempt" /\ Transient(last_response')) =>
          /\ events' # << >>
          /\ events'[Len(events')] = Sleep("backoff", Power(exponential_backoff_base, attempt))
          /\ page_number' = page_number
          /\ search_url' = search_url
          /\ IF attempt + 1 < max_retry_attempts
             THEN pc' = "attempt" /\ attempt' = attempt + 1
             ELSE pc' = "tally" /\ ~page_success']_vars

\* C23 witness: every pass of a page timed out; the last one slept
\* base^(max_retry_attempts - 1) seconds and the page was given up.
C23_GaveUpAfterLastBackoff ==
    /\ pc = "tally"
    /\ ~page_success
    /\ attempt = max_retry_attempts
    /\ last_response.fault = "timeout"
    /\ last_sleep = Sleep("backoff", Power(exponential_backoff_base, max_retry_attempts - 1))
    /\ fetches = max_retry_attempts

\* C24: a step of the page loop that raises the failed-page tally to 2 or
\* more runs the recovery strategy in that same step, before the loop goes
\* on to the next page, whether the page failed through the request step
\* returning False or through an exception caught by the page loop.
C24_RecoveryAtTwoFailures ==
    [][(HarvestStep /\ failed_pages' > failed_pages /\ failed_pages' >= RecoveryThreshold) =>
          page_recoveries' > page_recoveries]_vars

\* The operations of a full session reset of a session that holds a client.
FullReset ==
    << Event("aclose", 0), Event("new_system", 0), Event("new_client", 0),
       Event("session_start", 0) >>

\* C25: at the top of a page iteration with requests_made_in_session at or
\* above max_requests_per_session the session is reset in full, whatever
\* the failure tally is, before the page's first fetch (a reset that raises
\* skips the page without a fetch); so the first fetch of every page is
\* issued with requests_made_in_session below the ceiling.
C25_ResetBeforeFirstFetch ==
    [][HarvestStep =>
          /\ (pc = "page_top" /\ requests_made_in_session >= max_requests_per_session) =>
                \/ /\ events' = FullReset
                   /\ requests_made_in_session' = 0
                   /\ http_client' = "open"
                   /\ pc' = "attempt"
                \/ /\ construct_failed'
                   /\ events' = << Event("aclose", 0) >>
                   /\ pc' # "attempt"
                   /\ failed_pages' = failed_pages + 1
          /\ (pc = "attempt" /\ attempt = 0 /\ Gets(events') # << >>) =>
                requests_made_in_session < max_requests_per_session]_vars

\* C25 witness: with one page already failed, the counter reached the
\* ceiling and the next page starts on a session that was just reset.
C25_ResetWithFailureTallied ==
    /\ pc = "attempt"
    /\ attempt = 0
    /\ failed_pages = 1
    /\ page_number = 2
    /\ events = FullReset
    /\ requests_made_in_session = 0

\* The pages tallied so far, as successful or as failed.
Tallied == successful_pages + failed_pages

\* C26: pages are fetched one at a time in increasing index order from 0.
\* Every fetch is a single get for offset 25 * page_number, issued from the
\* attempt loop of the current page; the page index starts at 0, never
\* decreases, and moves on by one only in a step that tallies the page;
\* the step after a tally is never a fetch of the page just tallied.
C26_PagesInOrderOneAtATime ==
    [][HarvestStep =>
          /\ Gets(events') # << >> =>
                /\ pc = "attempt"
                /\ Gets(events') = << Event("get", 25 * page_number) >>
                /\ fetches' = fetches + 1
          /\ Gets(events') = << >> => fetches' = fetches
          /\ page_number' \in {page_number, page_number + 1}
          /\ page_number' = page_number + 1 => (Tallied' > Tallied /\ pc' = "page_top")
          /\ pc = "tally" =>
                /\ Tallied' > Tallied
                /\ \/ pc' = "page_top" /\ page_number' = page_number + 1
                   \/ pc' \in {"returned", "raised"}
          /\ pc' = "attempt" => page_number' = page_number
          /\ (pc = "page_top" /\ pc' = "attempt") => Tallied' = Tallied]_vars

\* C26 witness: the third page is being fetched after the first was
\* tallied successful and the second failed.
C26_ThirdPageAfterTwoTallied ==
    /\ pc = "attempt"
    /\ page_number = 2
    /\ attempt = 1
    /\ successful_pages = 1
    /\ failed_pages = 1
    /\ Gets(events) = << Event("get", 50) >>

\* C27: every get, on the first pass of a page and on every retry, comes
\* directly after a pacing sleep made in the same pass; a pass issues one
\* get at most, so no two gets are issued without a pacing sleep between
\* them.
C27_PacingBeforeEveryFetch ==
    [][HarvestStep =>
          /\ \A i \in 1..Len(events') :
                IsGet(events'[i]) => (i > 1 /\ events'[i - 1] = Sleep("pacing", 0))
          /\ Len(Gets(events')) <= 1
          /\ fetches' # fetches => Len(Gets(events')) = 1]_vars

\* C27 witness: a retry of the second page, in a session that has made
\* requests already was paced before its get.
C27_RetryWasPaced ==
    /\ attempt = 2
    /\ page_number = 1
    /\ requests_made_in_session > 2
    /\ Len(events) >= 2
    /\ events[1] = Sleep("pacing", 0)
    /\ IsGet(events[2])

\* C28: the number of requests a session has made since its last break, or
\* since it started, never exceeds the upper bound of break_frequency_range.
C28_BreakWithinUpperBound == requests_since_break <= break_frequency_max

Did(evts, e) == \E i \in 1..Len(evts) : evts[i] = e

\* C30: a step in which the recovery strategy has run to its end leaves
\* the session as a new one: the request counter is 0, a new anti-detection
\* system and a new client are in place, the session start is renewed, and
\* the failure counters are back at 0.
C30_RecoveryResetsWholeSession ==
    [][(HarvestStep /\ Did(events', Sleep("cooldown", 0))) =>
          /\ requests_made_in_session' = 0
          /\ http_client' = "open"
          /\ Did(events', Event("new_system", 0))
          /\ Did(events', Event("session_start", 0))
          /\ failed_pages' = 0
          /\ extraction_statistics'.failed_requests = 0]_vars

\* C39: every record of the harvested list carries the score that the
\* scoring formula gives for the fields the record has in the list.
C39_StoredScoreIsScoreOfFields ==
    \A i \in 1..Len(harvested_jobs_data) :
        harvested_jobs_data[i].data_quality_score
            = _calculate_data_quality_score(harvested_jobs_data[i])

\* The operations of a recovery that ran to its end on a session that
\* holds a client.
FullRecovery == FullReset \o << Sleep("cooldown", 0) >>

\* C35: the tally of a page that ended on a 403, when a page had failed
\* before, runs the recovery strategy again after the one the request step
\* ran for the 403: a second reset and a second cooldown before the next
\* page or the end of the harvest, also when the tally reaches 3 and the
\* harvest stops.  (A recovery is cut short only when a constructor of its
\* reset raises.)
C35_ForbiddenPageRecoversTwice ==
    [][(HarvestStep /\ pc = "tally" /\ last_response.status = 403 /\ failed_pages >= 1) =>
          /\ page_recoveries >= 1
          /\ page_recoveries' = page_recoveries + 1
          /\ events = ForbiddenRecovered =>
                \/ /\ page_recoveries = 1
                   /\ events' = FullRecovery
                   /\ requests_made_in_session' = 0
                   /\ fetches' = fetches
                   /\ failed_pages' = failed_pages + 1
                   /\ failed_pages' >= AbortThreshold => pc' = "returned"
                \/ construct_failed']_vars

\* C35 witness: the third failed page ended on a 403; the harvest stopped
\* after the second recovery of that page.
C35_TwiceBeforeAbort ==
    /\ pc = "returned"
    /\ failed_pages = AbortThreshold
    /\ last_response.status = 403
    /\ page_recoveries = 2
    /\ events = FullRecovery
    /\ ~construct_failed

\* A 200 response whose body holds no job card, as last_response keeps it.
NoCardsResponse == Response(200, "none", << >>, NoHeader)

\* C36: a pass answered 200 with no job card ends the request step with
\* True after the pacing delay and the get alone: no record added, only
\* pages_with_no_jobs raised, no retry, no recovery; the tally of a page
\* that succeeded counts it successful and leaves the failed tally and the
\* session alone; and a harvest that returns with every one of its
\* maximum_pages pages counted as holding no job returns the empty list
\* with all pages successful.
C36_EmptyPageIsSuccess ==
    [][HarvestStep =>
          /\ (pc = "attempt" /\ last_response' = NoCardsResponse) =>
                /\ events' = << Sleep("pacing", 0), Event("get", search_url) >>
                /\ harvested_jobs_data' = harvested_jobs_data
                /\ extraction_statistics' =
                      [extraction_statistics EXCEPT !.pages_with_no_jobs = @ + 1]
                /\ page_success'
                /\ pc' = "tally"
                /\ attempt' = attempt
                /\ page_recoveries' = page_recoveries
          /\ (pc = "tally" /\ page_success) =>
                /\ successful_pages' = successful_pages + 1
                /\ failed_pages' = failed_pages
                /\ events' = << >>
                /\ page_recoveries' = page_recoveries
                /\ requests_made_in_session' = requests_made_in_session
          /\ (pc' = "returned" /\ extraction_statistics'.pages_with_no_jobs = maximum_pages) =>
                /\ result' = << >>
                /\ successful_pages' = maximum_pages
                /\ failed_pages' = 0]_vars

\* C36 witness: every page of the harvest was answered with such a
\* response, the first one on a retry after a timeout.
C36_AllPagesEmpty ==
    /\ pc = "returned"
    /\ extraction_statistics.pages_with_no_jobs = maximum_pages
    /\ last_response = NoCardsResponse
    /\ result = << >>
    /\ successful_pages = maximum_pages
    /\ fetches = maximum_pages + 1

SessionCountLimit == max_requests_per_session + max_retry_attempts - 1

\* C38: a pass of the attempt loop raises requests_made_in_session by one
\* when a response came back and leaves it alone when get raised; no other
\* step raises it; a step in which a session reset ran to its end leaves it
\* at 0, and nothing else lowers it but the recovery, which zeroes it too;
\* and it never exceeds max_requests_per_session + max_retry_attempts - 1.
C38_CountsResponsesWithinLimit ==
    [][HarvestStep =>
          /\ requests_made_in_session <= SessionCountLimit
          /\ requests_made_in_session' <= SessionCountLimit
          /\ Did(events', Event("session_start", 0)) => requests_made_in_session' = 0
          /\ ~Did(events', Event("session_start", 0)) =>
                requests_made_in_session' =
                    requests_made_in_session
                      + (IF pc = "attempt" /\ last_response'.status # 0 THEN 1 ELSE 0)]_vars

\* C38 witness: a page begun one request below the ceiling used all its
\* passes, each answered: the count stands at the limit.
C38_CountAtLimit ==
    /\ pc = "tally"
    /\ requests_made_in_session = SessionCountLimit
    /\ attempt = max_retry_attempts
    /\ last_response.status = 429

\* C40: search_jobs of the Selenium scraper returns with the browser quit
\* and the driver dropped, handing back jobs_data; the next search_jobs on
\* the same scraper is refused with RuntimeError at its first statement and
\* leaves jobs_data, the result handed back and the browser as they were.
C40_OneSearchPerScraper ==
    [][engine = "selenium" =>
          /\ pc' = "selenium_returned" =>
                (driver' = "none" /\ browser' = "quit" /\ result' = jobs_data')
          /\ pc = "selenium_returned" =>
                /\ pc' = "selenium_refused"
                /\ jobs_data' = jobs_data
                /\ result' = result
                /\ driver' = "none"
                /\ browser' = browser]_vars

\* C40 witness: a second search was refused; the two records of the first
\* are still held.
C40_SecondSearchRefused ==
    /\ engine = "selenium"
    /\ pc = "selenium_refused"
    /\ Len(jobs_data) = 2
    /\ result = jobs_data
    /\ driver = "none"
    /\ browser = "quit"

(***************************************************************************)
(* Header rotation: AdvancedAntiDetectionSystem and the header dict of the *)
(* HTTP client.  A dict is a function from its keys to their values.       *)
(***************************************************************************)

\* HarvestingConfiguration.user_agent_rotation_frequency (12 in the source)
\* and browser_profile_rotation_frequency (25 in the source), scaled down.
user_agent_rotation_frequency == 2
browser_profile_rotation_frequency == 3

\* The get_stealth_headers calls one run of the rotation is followed for.
MaxHeaderCalls == 6

\* The keys of the profile dicts of one browser.
ProfileKeys(family) ==
    LET common == { "browser", "version", "user_agent", "accept", "accept_language",
                    "accept_encoding", "upgrade_insecure_requests" }
        sec_fetch == { "sec_fetch_dest", "sec_fetch_mode", "sec_fetch_site",
                       "sec_fetch_user" }
    IN  CASE family = "chrome" ->
               common \cup sec_fetch
                 \cup { "sec_ch_ua", "sec_ch_ua_mobile", "sec_ch_ua_platform",
                        "cache_control" }
          [] family = "firefox" -> common \cup { "te" }
          [] family = "edge" -> common \cup sec_fetch

\* One profile dict.  The user agent and the client hint carry the version,
\* the accept value differs from browser to browser, and the other values
\* are the same for every profile that has the key.
BrowserProfile(family, version) ==
    [ key \in ProfileKeys(family) |->
        CASE key = "browser" -> family
          [] key \in { "version", "user_agent", "sec_ch_ua" } -> version
          [] key = "accept" -> family
          [] OTHER -> key ]

\* The profiles: the two newest of the four versions the source lists for
\* each of Chrome and Firefox, and both versions of Edge.
_create_realistic_browser_profiles ==
    LET chrome_versions == { "120.0.0.0", "119.0.0.0" }
        firefox_versions == { "121.0", "120.0" }
        edge_versions == { "120.0.2210.77", "119.0.2151.72" }
    IN  { BrowserProfile("chrome", version) : version \in chrome_versions }
          \cup { BrowserProfile("firefox", version) : version \in firefox_versions }
          \cup { BrowserProfile("edge", version) : version \in edge_versions }

\* The headers get_stealth_headers adds to those of the profile; the width
\* it draws from viewport_sizes is left open.
DynamicHeaders ==
    [ key \in { "dnt", "connection", "pragma", "viewport-width" } |-> key ]

\* dict.update and httpx.Headers.update: the keys of other are written,
\* every other key is kept.
dict_update(dict, other) ==
    [ key \in DOMAIN dict \cup DOMAIN other |->
        IF key \in DOMAIN other THEN other[key] ELSE dict[key] ]

\* AdvancedAntiDetectionSystem.__init__; choice is the profile random.choice
\* picked.
AdvancedAntiDetectionSystem(choice) ==
    [ request_counter |-> 0, last_profile_rotation |-> 0,
      current_browser_profile |-> choice ]

\* get_stealth_headers: counts the call, takes the profile random.choice
\* picked when the rotation is due, and builds the headers of the profile
\* in use.  Returns the system after the call and the headers.
get_stealth_headers(system, choice) ==
    LET request_counter == system.request_counter + 1
        due == (request_counter - system.last_profile_rotation)
                   >= browser_profile_rotation_frequency
        profile == IF due THEN choice ELSE system.current_browser_profile
        base == [ key \in DOMAIN profile \ { "browser", "version" } |-> profile[key] ]
    IN  [ system |-> [ request_counter |-> request_counter,
                       last_profile_rotation |->
                           IF due THEN request_counter ELSE system.last_profile_rotation,
                       current_browser_profile |-> profile ],
          headers |-> dict_update(base, DynamicHeaders) ]

\* The call of get_stealth_headers that led from system to after selected
\* the profile anew.
profile_rotated(system, after) ==
    after.last_profile_rotation # system.last_profile_rotation

\* The harvester as its __init__ leaves it: nothing fetched, no client yet.
Constructed ==
    /\ pc = "new"
    /\ engine = "httpx"
    /\ managed = FALSE
    /\ driver = "none"
    /\ browser = "none"
    /\ jobs_data = << >>
    /\ page_number = 0
    /\ attempt = 0
    /\ page_success = FALSE
    /\ successful_pages = 0
    /\ failed_pages = 0
    /\ requests_made_in_session = 0
    /\ harvested_jobs_data = << >>
    /\ extraction_statistics = ZeroStatistics
    /\ result = << >>
    /\ http_client = "none"
    /\ orphans = 0
    /\ last_sleep = NoSleep
    /\ last_response = Met(NoResponse)
    /\ fetches = 0
    /\ page_recoveries = 0
    /\ events = << >>
    /\ requests_since_break = 0
    /\ search_url = 0
    /\ interrupted = FALSE
    /\ construct_failed = FALSE

\* The harvester is constructed with its anti-detection system.
RotationInit ==
    /\ Constructed
    /\ anti_detection_system \in
           { AdvancedAntiDetectionSystem(choice) : choice \in _create_realistic_browser_profiles }
    /\ headers = << >>
    /\ requests_with_profile = 0
    /\ op = "none"
    /\ arg = None
    /\ ret = None

\* What the rotation leaves alone.
rotation_frame ==
    << pc, managed, page_number, attempt, page_success, successful_pages, failed_pages,
       harvested_jobs_data, extraction_statistics, result, orphans, last_sleep,
       last_response, fetches, page_recoveries, events, requests_since_break, search_url,
       interrupted, construct_failed, engine, driver, browser, jobs_data, op, arg, ret >>

\* _initialize_http_client: the client is built with the stealth headers.
rotation_initialize_http_client ==
    /\ http_client = "none"
    /\ anti_detection_system.request_counter < MaxHeaderCalls
    /\ \E choice \in _create_realistic_browser_profiles :
         \E out \in { get_stealth_headers(anti_detection_system, choice) } :
            /\ anti_detection_system' = out.system
            /\ headers' = out.headers
            /\ requests_with_profile' =
                   IF profile_rotated(anti_detection_system, out.system)
                   THEN 0 ELSE requests_with_profile
    /\ http_client' = "open"
    /\ UNCHANGED requests_made_in_session
    /\ UNCHANGED rotation_frame

\* One pass of the attempt loop of _execute_intelligent_request, as far as
\* the headers go: the rotation when the request count is a multiple of the
\* frequency, then the get, which counts only when a response came back.
rotation_request ==
    /\ http_client = "open"
    /\ requests_made_in_session < max_requests_per_session
    /\ anti_detection_system.request_counter < MaxHeaderCalls
    /\ IF requests_made_in_session % user_agent_rotation_frequency = 0
       THEN \E choice \in _create_realistic_browser_profiles :
              \E out \in { get_stealth_headers(anti_detection_system, choice) } :
                 /\ anti_detection_system' = out.system
                 /\ headers' = dict_update(headers, out.headers)
       ELSE UNCHANGED << anti_detection_system, headers >>
    /\ \E responded \in BOOLEAN :
         LET answered == IF responded THEN 1 ELSE 0
         IN  /\ requests_made_in_session' = requests_made_in_session + answered
             /\ requests_with_profile' =
                    (IF profile_rotated(anti_detection_system, anti_detection_system')
                     THEN 0 ELSE requests_with_profile) + answered
    /\ UNCHANGED http_client
    /\ UNCHANGED rotation_frame

\* _reset_session_completely: a new anti-detection system and a new client
\* with the headers the new system hands out.
rotation_reset_session_completely ==
    /\ http_client = "open"
    /\ \E first \in _create_realistic_browser_profiles :
         \E choice \in _create_realistic_browser_profiles :
            \E out \in { get_stealth_headers(AdvancedAntiDetectionSystem(first), choice) } :
               /\ anti_detection_system' = out.system
               /\ headers' = out.headers
    /\ requests_with_profile' = 0
    /\ requests_made_in_session' = 0
    /\ UNCHANGED http_client
    /\ UNCHANGED rotation_frame

RotationNext ==
    \/ rotation_initialize_http_client
    \/ rotation_request
    \/ rotation_reset_session_completely

RotationSpec == RotationInit /\ [][RotationNext]_vars

\* The header names of the profile in use, with the dynamic ones.
ActiveHeaderNames ==
    (DOMAIN anti_detection_system.current_browser_profile \ { "browser", "version" })
        \cup DOMAIN DynamicHeaders

\* C11: whenever the client can fetch, its header dict has only header names
\* of the profile in use (and the dynamic ones); no name written for an
\* earlier profile stays behind.
C11_HeadersOfActiveProfileOnly ==
    http_client = "open" => DOMAIN headers \subseteq ActiveHeaderNames

\* C29: within a session no browser profile stays in use for more than
\* browser_profile_rotation_frequency requests: by then the profile has
\* been selected from the pool anew.
C29_ProfileRotatedEveryFrequencyRequests ==
    requests_with_profile <= browser_profile_rotation_frequency

(***************************************************************************)
(* Calls of the library functions: a call draws its arguments and one of   *)
(* the actions below applies the function they are for.                    *)
(***************************************************************************)

\* The longest page of job cards a call is given.
MaxCards == 4

SeqsUpTo(S, n) == UNION { [1..k -> S] : k \in 0..n }

Input(kind, value) == [kind |-> kind, value |-> value]

\* Pages of job cards for the card loop.
CardPages ==
    { Input("job_cards", job_cards) :
        job_cards \in SeqsUpTo({ CardDev, CardDevUpper, CardFallback, CardNoTitle, CardSpam },
                               MaxCards) }

\* The function fn has been applied to the arguments and has returned out.
Returned(fn, out) ==
    /\ op' = fn
    /\ ret' = out
    /\ UNCHANGED << arg, rotation_vars >>
    /\ UNCHANGED << harvester_vars, selenium_vars, pc, page_number, result,
                    interrupted, construct_failed >>

\* The card loop of _extract_jobs_from_html on one page of cards.
call_extract_cards ==
    /\ op = "input"
    /\ arg.kind = "job_cards"
    /\ \E out \in { extract_cards(arg.value,
                        [jobs |-> << >>, successful_extractions |-> 0,
                         failed_extractions |-> 0]) } :
          Returned("extract_cards", out)

\* The cards of a page on which no title selector resolves.
TitleLess(job_cards) ==
    { i \in 1..Len(job_cards) : ~Truthy(extract_with_selector_fallbacks(job_cards[i].title)) }

\* C12: on a page of n cards every card is counted once, as a successful or
\* as a failed extraction; the records appended are as many as the
\* successful extractions; every card without a resolvable title is among
\* the failed ones and leaves no record.
C12_EveryCardCountedOnce ==
    op = "extract_cards" =>
        /\ ret.successful_extractions + ret.failed_extractions = Len(arg.value)
        /\ Len(ret.jobs) = ret.successful_extractions
        /\ ret.failed_extractions >= Cardinality(TitleLess(arg.value))
        /\ Len(ret.jobs) <= Len(arg.value) - Cardinality(TitleLess(arg.value))
        /\ \A i \in 1..Len(ret.jobs) : Truthy(ret.jobs[i].title)

\* Three well-formed cards and one without a title: three records, one
\* failed extraction.
C12_ThreeRecordsOneFailed ==
    /\ op = "extract_cards"
    /\ arg.value = << CardDev, CardNoTitle, CardFallback, CardDevUpper >>
    /\ Len(ret.jobs) = 3
    /\ ret.successful_extractions = 3
    /\ ret.failed_extractions = 1

\* _find_job_cards_with_fallbacks: the first selector whose soup.select
\* gives a non-empty list wins; nothing catches what soup.select raises.
\* The text of a hit stands for the list of elements matched.
RECURSIVE find_job_cards_with_fallbacks(_)
find_job_cards_with_fallbacks(outcomes) ==
    IF outcomes = << >> THEN Returns(<< >>)
    ELSE LET o == Head(outcomes)
         IN  CASE o.kind = "raise" -> Raises
               [] o.kind = "hit" /\ o.text # << >> -> Returns(o.text)
               [] OTHER -> find_job_cards_with_fallbacks(Tail(outcomes))

\* LinkedInSeleniumScraper._extract_text_from_card: find_element raising
\* NoSuchElementException is a miss and is passed over; any other exception
\* ("raise": a stale element, an invalid selector) leaves the function.
RECURSIVE extract_text_from_card(_)
extract_text_from_card(outcomes) ==
    IF outcomes = << >> THEN Returns(None)
    ELSE LET o == Head(outcomes)
             text == Strip(o.text)
         IN  CASE o.kind = "raise" -> Raises
               [] o.kind = "hit" /\ text # << >> /\ text # NotAvailable -> Returns(text)
               [] OTHER -> extract_text_from_card(Tail(outcomes))

\* The longest selector list a call is given.
MaxPatterns == 3

\* What the selectors of one list do on an element, in order.
SelectorOutcomes ==
    { Input("outcomes", outcomes) :
        outcomes \in SeqsUpTo({ Miss, Raise, Hit(<< "x" >>), Hit(<< " " >>),
                                Hit(<< "D","e","v" >>), Hit(<< " ","Q","A"," ","n","e","w" >>),
                                Hit(<< "n","e","w" >>), Hit(NotAvailable) },
                              MaxPatterns) }

call_extract_with_selector_fallbacks ==
    /\ op = "input"
    /\ arg.kind = "outcomes"
    /\ \E out \in { extract_with_selector_fallbacks(arg.value) } :
          Returned("extract_with_selector_fallbacks", out)

call_find_job_cards_with_fallbacks ==
    /\ op = "input"
    /\ arg.kind = "outcomes"
    /\ \E out \in { find_job_cards_with_fallbacks(arg.value) } :
          Returned("find_job_cards_with_fallbacks", out)

call_extract_text_from_card ==
    /\ op = "input"
    /\ arg.kind = "outcomes"
    /\ \E out \in { extract_text_from_card(arg.value) } :
          Returned("extract_text_from_card", out)

\* The patterns of a list that yield a match the HTTP resolver takes: an
\* element whose trimmed text has two characters or more.
YieldingHttp(outcomes) ==
    { i \in 1..Len(outcomes) : outcomes[i].kind = "hit" /\ Len(Strip(outcomes[i].text)) >= 2 }

\* The patterns that yield a match the Selenium resolver takes: an element
\* whose trimmed text is not empty and not the "N/A" placeholder.
YieldingSelenium(outcomes) ==
    { i \in 1..Len(outcomes) :
        /\ outcomes[i].kind = "hit"
        /\ Strip(outcomes[i].text) \notin { << >>, NotAvailable } }

Lowest(S) == CHOOSE i \in S : \A j \in S : i <= j

\* C13: a selector resolver returns the value of the lowest-index pattern
\* that yields a match (the cleaned text of that element for the HTTP
\* resolver, its trimmed text for the Selenium one), never a later one, and
\* returns None exactly when no pattern yields a match.
C13_FirstMatchWins ==
    /\ op = "extract_with_selector_fallbacks" =>
          IF YieldingHttp(arg.value) = { }
          THEN ret = None
          ELSE /\ ret # None
               /\ ret = clean_extracted_text(Strip(arg.value[Lowest(YieldingHttp(arg.value))].text))
    /\ (op = "extract_text_from_card" /\ ~ret.raised) =>
          IF YieldingSelenium(arg.value) = { }
          THEN ret.value = None
          ELSE ret.value = Strip(arg.value[Lowest(YieldingSelenium(arg.value))].text)

\* Patterns [A, B] that both match, with different values: the value of A
\* came back.
C13_FirstOfTwoMatches ==
    /\ op = "extract_with_selector_fallbacks"
    /\ arg.value = << Hit(<< "D","e","v" >>), Hit(<< " ","Q","A"," ","n","e","w" >>) >>
    /\ ret = << "D","e","v" >>

\* C32: a text the HTTP selector resolver returns (anything but None) has
\* two characters or more once trimmed.
C32_ResolvedTextAtLeastTwoLong ==
    (op = "extract_with_selector_fallbacks" /\ ret # None) => Len(Strip(ret)) >= 2

\* C14: a selector whose query raises never ends the resolution of a field
\* or of the job-card list: the resolver returns, and returns None (no
\* cards, for the card list) only when no pattern yielded a match.
C14_RaisingPatternSkipped ==
    /\ op = "extract_with_selector_fallbacks" =>
          (ret = None <=> YieldingHttp(arg.value) = { })
    /\ op = "find_job_cards_with_fallbacks" =>
          /\ ~ret.raised
          /\ ret.value = << >> <=>
                 ~\E i \in 1..Len(arg.value) :
                      arg.value[i].kind = "hit" /\ arg.value[i].text # << >>
    /\ op = "extract_text_from_card" =>
          /\ ~ret.raised
          /\ ret.value = None <=> YieldingSelenium(arg.value) = { }

(***************************************************************************)
(* JobDataValidator: the field cleaners.  A field is a text, None, or the  *)
(* "N/A" placeholder.                                                      *)
(***************************************************************************)

\* Every position of s from lo to hi holds whitespace.
AllSpace(s, lo, hi) == \A i \in lo..hi : i \in 1..Len(s) => IsSpace(s[i])

\* s[i:] starts with word, whatever the letter case; word in lower case.
WordAt(s, i, word) ==
    /\ i + Len(word) - 1 <= Len(s)
    /\ Lower(SubSeq(s, i, i + Len(word) - 1)) = word

\* re.sub(r'\s*' + core, '', s) for a core pattern that ends in $: at is the
\* set of positions where the core matches up to the end of s.  The match
\* starts at the leftmost position from which whitespace leads to one of
\* them, and everything from there on is removed.
CutFrom(s, at) ==
    LET starts == { p \in 1..Len(s) : \E i \in at : p <= i /\ AllSpace(s, p, i - 1) }
    IN  IF starts = { } THEN s
        ELSE SubSeq(s, 1, (CHOOSE p \in starts : \A q \in starts : p <= q) - 1)

\* _clean_title: whitespace runs collapsed, then r'\s*\(\s*remote\s*\)\s*$'
\* and r'\s*-\s*remote\s*$' removed, each once and in this order.
_clean_title(title) ==
    IF title = None THEN NotAvailable
    ELSE LET remote == << "r","e","m","o","t","e" >>
             collapsed == CollapseSpaces(Strip(title))
             paren(s) == { i \in 1..Len(s) :
                             /\ s[i] = "("
                             /\ \E j \in (i + 1)..Len(s), k \in (i + 1)..Len(s) :
                                  /\ AllSpace(s, i + 1, j - 1)
                                  /\ WordAt(s, j, remote)
                                  /\ AllSpace(s, j + Len(remote), k - 1)
                                  /\ s[k] = ")"
                                  /\ AllSpace(s, k + 1, Len(s)) }
             dash(s) == { i \in 1..Len(s) :
                            /\ s[i] = "-"
                            /\ \E j \in (i + 1)..Len(s) :
                                 /\ AllSpace(s, i + 1, j - 1)
                                 /\ WordAt(s, j, remote)
                                 /\ AllSpace(s, j + Len(remote), Len(s)) }
             first == CutFrom(collapsed, paren(collapsed))
         IN  Strip(CutFrom(first, dash(first)))

\* _clean_company: whitespace runs collapsed, then the company noise
\* patterns r'\s*\(.*?\)\s*$', r'\s*-\s*hiring\s*now\s*$' and r'\s*\|\s*.*$'
\* removed, each once and in this order.
_clean_company(company) ==
    IF company = None THEN NotAvailable
    ELSE LET hiring == << "h","i","r","i","n","g" >>
             now == << "n","o","w" >>
             collapsed == CollapseSpaces(Strip(company))
             paren(s) == { i \in 1..Len(s) :
                             /\ s[i] = "("
                             /\ \E k \in (i + 1)..Len(s) :
                                  s[k] = ")" /\ AllSpace(s, k + 1, Len(s)) }
             dash(s) == { i \in 1..Len(s) :
                            /\ s[i] = "-"
                            /\ \E j \in (i + 1)..Len(s), k \in (i + 1)..Len(s) :
                                 /\ AllSpace(s, i + 1, j - 1)
                                 /\ WordAt(s, j, hiring)
                                 /\ AllSpace(s, j + Len(hiring), k - 1)
                                 /\ WordAt(s, k, now)
                                 /\ AllSpace(s, k + Len(now), Len(s)) }
             pipe(s) == { i \in 1..Len(s) : s[i] = "|" }
             first == CutFrom(collapsed, paren(collapsed))
             second == CutFrom(first, dash(first))
         IN  Strip(CutFrom(second, pipe(second)))

\* _clean_location: whitespace runs collapsed, then the first location
\* pattern that matches rewrites the text as "city, region".  Both patterns
\* are r'^([^,]+),?\s*' followed by the region: the city is the longest
\* comma-free prefix after which an optional comma, whitespace and the
\* region follow; the region is two capitals (r'([A-Z]{2}).*$') or letters
\* and whitespace up to the end (r'([A-Za-z\s]+)$').
_clean_location(location) ==
    IF location = None THEN NotAvailable
    ELSE LET s == CollapseSpaces(Strip(location))
             CommaFree(i) == \A n \in 1..i : s[n] # ","
             \* where the region starts when the city ends at i
             RegionStart(i) ==
                 LET afterComma == IF i + 1 <= Len(s) /\ s[i + 1] = "," THEN i + 2 ELSE i + 1
                     rest == { n \in afterComma..Len(s) : ~IsSpace(s[n]) }
                 IN  IF rest = { } THEN Len(s) + 1
                     ELSE CHOOSE n \in rest : \A m \in rest : n <= m
             Capital(n) == n <= Len(s) /\ s[n] \in Range(UpperSeq)
             state == { i \in 1..Len(s) :
                          /\ CommaFree(i)
                          /\ Capital(RegionStart(i))
                          /\ Capital(RegionStart(i) + 1) }
             country == { i \in 1..Len(s) :
                            /\ CommaFree(i)
                            /\ RegionStart(i) <= Len(s)
                            /\ \A n \in RegionStart(i)..Len(s) :
                                 IsLetter(s[n]) \/ IsSpace(s[n]) }
             Longest(S) == CHOOSE i \in S : \A j \in S : j <= i
             Joined(city, region) == Strip(city) \o << ",", " " >> \o Strip(region)
         IN  IF state # { }
             THEN Joined(SubSeq(s, 1, Longest(state)),
                         SubSeq(s, RegionStart(Longest(state)), RegionStart(Longest(state)) + 1))
             ELSE IF country # { }
             THEN Joined(SubSeq(s, 1, Longest(country)),
                         SubSeq(s, RegionStart(Longest(country)), Len(s)))
             ELSE Strip(s)

\* The length _clean_summary cuts a summary down to, and what it keeps of it.
SummaryLimit == 500
SummaryKept == 497

\* _clean_summary: whitespace runs collapsed, a text over the limit cut to
\* its first 497 characters and "...".
_clean_summary(summary) ==
    IF summary = None THEN NotAvailable
    ELSE LET collapsed == CollapseSpaces(Strip(summary))
         IN  Strip(IF Len(collapsed) > SummaryLimit
                   THEN SubSeq(collapsed, 1, SummaryKept) \o << ".", ".", "." >>
                   ELSE collapsed)

\* Texts the cleaners are given.
LongSummary == [i \in 1..(SummaryLimit + 2) |-> IF i % 7 = 0 THEN " " ELSE "a"]

CleanerTexts ==
    { Input("text", text) : text \in
        { << "D","e","v" >>,
          << " "," ","D","e","v"," "," "," ","O","p","s"," " >>,
          << "D","e","v"," ","(","R","e","m","o","t","e",")" >>,
          << "D","e","v"," ","("," ","r","e","m","o","t","e"," ",")" >>,
          << "D","e","v"," ","-"," ","R","e","m","o","t","e" >>,
          << "D","e","v"," ","(","R","e","m","o","t","e",")"," ","(","R","e","m","o","t","e",")" >>,
          << "D","e","v"," ","(","r","e","m","o","t","e",")"," ","-"," ","r","e","m","o","t","e" >>,
          << "D","e","v"," ","-"," ","r","e","m","o","t","e"," ","(","r","e","m","o","t","e",")" >>,
          << "Q","A"," ","L","e","a","d" >>,
          << "A","c","m","e" >>,
          << "A","c","m","e"," ","(","U","S",")" >>,
          << "A","c","m","e"," ","(","U","S",")"," ","I","n","c"," ","(","x",")" >>,
          << "A","c","m","e"," ","-"," ","H","i","r","i","n","g"," ","N","o","w" >>,
          << "A","c","m","e"," ","|"," ","J","o","b","s" >>,
          << "A","c","m","e"," ","(","U","S",")"," ","|"," ","J","o","b","s" >>,
          << "N","Y","C" >>,
          << "A","u","s","t","i","n",","," ","T","X" >>,
          << "N","e","w"," ","Y","o","r","k",","," ","N","Y",","," ","U","S","A" >>,
          << "B","e","r","l","i","n" >>,
          << "B","e","r","l","i","n",","," ","G","e","r","m","a","n","y" >>,
          <<  >>,
          << "N","/","A" >>,
          << "4","2" >>,
          LongSummary, None } }

call_clean_title ==
    /\ op = "input"
    /\ arg.kind = "text"
    /\ \E out \in { _clean_title(arg.value) } : Returned("_clean_title", out)

call_clean_company ==
    /\ op = "input"
    /\ arg.kind = "text"
    /\ \E out \in { _clean_company(arg.value) } : Returned("_clean_company", out)

call_clean_location ==
    /\ op = "input"
    /\ arg.kind = "text"
    /\ \E out \in { _clean_location(arg.value) } : Returned("_clean_location", out)

call_clean_summary ==
    /\ op = "input"
    /\ arg.kind = "text"
    /\ \E out \in { _clean_summary(arg.value) } : Returned("_clean_summary", out)

\* C17: every field cleaner is idempotent: cleaning what a cleaner returned
\* gives the same text again.
C17_CleanersIdempotent ==
    /\ op = "_clean_title" => _clean_title(ret) = ret
    /\ op = "_clean_company" => _clean_company(ret) = ret
    /\ op = "_clean_location" => _clean_location(ret) = ret
    /\ op = "_clean_summary" => _clean_summary(ret) = ret

(***************************************************************************)
(* JobDataValidator: validation of one record.  A record has the keys      *)
(* title, company, location, job_url and posted_date.  A URL is given by   *)
(* the parts urlparse splits it into; a posted date by what the parsers    *)
(* of _validate_posted_date make of it.                                    *)
(***************************************************************************)

\* A job_url: form is "none" (None), "na" (the "N/A" placeholder) or "url".
Url(scheme, netloc, path, query) ==
    [form |-> "url", scheme |-> scheme, netloc |-> netloc, path |-> path, query |-> query]

NoUrl(form) == [form |-> form, scheme |-> "", netloc |-> << >>, path |-> << >>, query |-> << >>]

Param(name, value) == [name |-> name, value |-> value]

\* A posted_date: form is "none", "na", "absolute" (one of the date formats
\* parses it; when says where the date lies), "relative" ("2 days ago") or
\* "other".
PostedDate(form, when) == [form |-> form, when |-> when]

valid_domains == { << "l","i","n","k","e","d","i","n",".","c","o","m" >>, << "w","w","w",".","l","i","n","k","e","d","i","n",".","c","o","m" >> }

ListingMarker == << "/","j","o","b","s","/","v","i","e","w","/" >>

\* '/jobs/view/' in url
HasListingMarker(url) ==
    \/ Contains(url.netloc, ListingMarker)
    \/ Contains(url.path, ListingMarker)
    \/ \E i \in 1..Len(url.query) : Contains(url.query[i].value, ListingMarker)

ErrorIf(condition, error) == IF condition THEN << error >> ELSE << >>

_validate_title(title) ==
    IF title = None THEN << "Title must be a string" >>
    ELSE ErrorIf(Len(Strip(title)) < 3, "Title too short")
           \o ErrorIf(Len(Strip(title)) > 200, "Title too long")
           \o ErrorIf(~HasLetter(Strip(title)), "Title contains no letters")

_validate_company(company) ==
    IF company = None THEN << "Company must be a string" >>
    ELSE ErrorIf(Len(Strip(company)) < 2, "Company name too short")
           \o ErrorIf(Len(Strip(company)) > 150, "Company name too long")

_validate_url(url) ==
    IF url.form = "none" THEN << "URL must be a string" >>
    ELSE ErrorIf(url.scheme \notin { "http", "https" }, "URL must use HTTP or HTTPS scheme")
           \o ErrorIf(url.netloc = << >>, "URL missing domain")
           \o ErrorIf(~\E valid_domain \in valid_domains : Contains(Lower(url.netloc), valid_domain),
                      "URL not from LinkedIn")
           \o ErrorIf(~HasListingMarker(url), "URL is not a job posting")

_validate_location(location) ==
    IF location = None THEN << "Location must be a string" >>
    ELSE ErrorIf(Len(Strip(location)) < 2, "Location too short")
           \o ErrorIf(Len(Strip(location)) > 100, "Location too long")

_validate_posted_date(posted_date) ==
    CASE posted_date.form = "none" -> << "Posted date must be a string" >>
      [] posted_date.form = "absolute" ->
            ErrorIf(posted_date.when = "future", "Posted date is in the future")
              \o ErrorIf(posted_date.when = "older", "Posted date is more than a year old")
      [] posted_date.form = "relative" -> << >>
      [] OTHER -> << "Unable to parse posted date" >>

\* not job_data[field] or job_data[field] == "N/A"
MissingField(value) == value \in { None, << >>, NotAvailable }

\* validate_job_data: (is_valid, errors)
validate_job_data(job_data) ==
    LET errors ==
            ErrorIf(MissingField(job_data.title), "Missing required field: title")
              \o ErrorIf(MissingField(job_data.company), "Missing required field: company")
              \o _validate_title(job_data.title)
              \o _validate_company(job_data.company)
              \o (IF job_data.job_url.form # "na"
                  THEN _validate_url(job_data.job_url) ELSE << >>)
              \o (IF job_data.location # NotAvailable
                  THEN _validate_location(job_data.location) ELSE << >>)
              \o (IF job_data.posted_date.form # "na"
                  THEN _validate_posted_date(job_data.posted_date) ELSE << >>)
    IN  [is_valid |-> Len(errors) = 0, errors |-> errors]

\* _clean_url: http:// becomes https://, and of the query only the
\* currentJobId and jobId parameters stay.
KeepsParam(param) == param.name \in { "currentJobId", "jobId" }

_clean_url(url) ==
    CASE url.form = "none" -> NoUrl("na")
      [] url.form = "url" ->
            [url EXCEPT !.scheme = IF @ = "http" THEN "https" ELSE @,
                        !.query = SelectSeq(@, KeepsParam)]
      [] OTHER -> url

\* clean_job_data: a copy of the record with its fields cleaned; a field
\* that holds "N/A" is left as it is.
clean_job_data(job_data) ==
    [ title |-> IF job_data.title # NotAvailable
                THEN _clean_title(job_data.title) ELSE job_data.title,
      company |-> IF job_data.company # NotAvailable
                  THEN _clean_company(job_data.company) ELSE job_data.company,
      location |-> IF job_data.location # NotAvailable
                   THEN _clean_location(job_data.location) ELSE job_data.location,
      job_url |-> IF job_data.job_url.form # "na"
                  THEN _clean_url(job_data.job_url) ELSE job_data.job_url,
      posted_date |-> job_data.posted_date ]

\* remove_duplicates: the first record of every signature stays.
RECURSIVE remove_duplicates(_, _, _)
remove_duplicates(jobs_list, seen_signatures, unique_jobs) ==
    IF jobs_list = << >> THEN unique_jobs
    ELSE The({ IF this_signature \in seen_signatures
               THEN remove_duplicates(Tail(jobs_list), seen_signatures, unique_jobs)
               ELSE remove_duplicates(Tail(jobs_list),
                                      seen_signatures \cup { this_signature },
                                      Append(unique_jobs, Head(jobs_list))) :
               this_signature \in { signature(Head(jobs_list)) } })

(***************************************************************************)
(* Records the validator is given.                                         *)
(***************************************************************************)

GoodUrl == Url("https", << "w","w","w",".","l","i","n","k","e","d","i","n",".","c","o","m" >>, << "/","j","o","b","s","/","v","i","e","w","/","1" >>, << >>)

\* http, with a tracking parameter next to the job id.
TrackedUrl == Url("http", << "w","w","w",".","l","i","n","k","e","d","i","n",".","c","o","m" >>, << "/","j","o","b","s","/","v","i","e","w","/","1" >>,
                  << Param("trk", << "x" >>), Param("currentJobId", << "1" >>) >>)

\* Wrong scheme, no host, no listing path.
BadUrl == Url("ftp", << >>, << "/","f","e","e","d" >>, << >>)

\* A LinkedIn host, the listing marker only inside a query parameter.
MarkerInQueryUrl == Url("https", << "w","w","w",".","l","i","n","k","e","d","i","n",".","c","o","m" >>, << "/","f","e","e","d" >>, << Param("jobId", << "/","j","o","b","s","/","v","i","e","w","/","1" >>) >>)

\* A host that has an allow-listed domain inside its name.
LookAlikeUrl == Url("https", << "w","w","w",".","l","i","n","k","e","d","i","n",".","c","o","m",".","j","o","b","s",".","i","o" >>, << "/","j","o","b","s","/","v","i","e","w","/","1" >>, << >>)

Relative == PostedDate("relative", "past_year")

Job(title, company, location, job_url, posted_date) ==
    [ title |-> title, company |-> company, location |-> location,
      job_url |-> job_url, posted_date |-> posted_date ]

ValidatorRecords ==
    { Input("job_data", Job(title, company, location, job_url, posted_date)) :
        title \in { << "D","e","v" >>, << "a","b" >>, << "1","2" >>, << "1","2","3","4" >>, LongTitle, None, NotAvailable },
        company \in { << "A","c","m","e" >>, << "A" >>, None, NotAvailable },
        location \in { << "N","Y","C" >>, << "x" >>, NotAvailable },
        job_url \in { GoodUrl, BadUrl, MarkerInQueryUrl, LookAlikeUrl, NoUrl("na"), NoUrl("none") },
        posted_date \in { Relative, PostedDate("absolute", "past_year"),
                          PostedDate("absolute", "future"), PostedDate("absolute", "older"),
                          PostedDate("other", "past_year"), PostedDate("na", "past_year") } }

call_validate_job_data ==
    /\ op = "input"
    /\ arg.kind = "job_data"
    /\ \E out \in { validate_job_data(arg.value) } : Returned("validate_job_data", out)

Broken(condition, rule) == IF condition THEN { rule } ELSE { }

\* The rules of the rule table a record violates, each named by the error
\* that reports it.  A rule applies to a field that holds a value.
RuleViolations(job) ==
    LET Text(v) == v \notin { None, NotAvailable }
        title == Strip(job.title)
        company == Strip(job.company)
        location == Strip(job.location)
        url == job.job_url
        date == job.posted_date
    IN  Broken(job.title \in { None, << >>, NotAvailable }, "Missing required field: title")
        \cup Broken(job.company \in { None, << >>, NotAvailable },
                    "Missing required field: company")
        \cup Broken(Text(job.title) /\ Len(title) < 3, "Title too short")
        \cup Broken(Text(job.title) /\ Len(title) > 200, "Title too long")
        \cup Broken(Text(job.title) /\ ~\E i \in 1..Len(title) : IsLetter(title[i]),
                    "Title contains no letters")
        \cup Broken(Text(job.company) /\ Len(company) < 2, "Company name too short")
        \cup Broken(Text(job.company) /\ Len(company) > 150, "Company name too long")
        \cup Broken(Text(job.location) /\ Len(location) < 2, "Location too short")
        \cup Broken(Text(job.location) /\ Len(location) > 100, "Location too long")
        \cup Broken(url.form = "url" /\ url.scheme \notin { "http", "https" },
                    "URL must use HTTP or HTTPS scheme")
        \cup Broken(url.form = "url" /\ url.netloc = << >>, "URL missing domain")
        \cup Broken(url.form = "url" /\ Lower(url.netloc) \notin valid_domains,
                    "URL not from LinkedIn")
        \cup Broken(url.form = "url" /\ ~Contains(url.path, ListingMarker),
                    "URL is not a job posting")
        \cup Broken(date.form = "absolute" /\ date.when = "future",
                    "Posted date is in the future")
        \cup Broken(date.form = "absolute" /\ date.when = "older",
                    "Posted date is more than a year old")
        \cup Broken(date.form = "other", "Unable to parse posted date")

\* C18: validate_job_data says valid exactly when it lists no error, and it
\* lists an error for every rule of the rule table the record violates.
C18_EveryViolationReported ==
    op = "validate_job_data" =>
        /\ ret.is_valid <=> ret.errors = << >>
        /\ RuleViolations(arg.value) \subseteq Range(ret.errors)

(***************************************************************************)
(* ScraperManager._process_results: the scraper's records are cleaned,     *)
(* validated and deduplicated under the flags of the configuration, then   *)
(* the scraper is asked to save.                                           *)
(***************************************************************************)

MaxResults == 3

\* The loop of lines 224-231: every record is cleaned, the valid ones stay.
RECURSIVE clean_and_validate(_, _)
clean_and_validate(results, cleaned_results) ==
    IF results = << >> THEN cleaned_results
    ELSE The({ clean_and_validate(Tail(results),
                   IF validate_job_data(cleaned_job).is_valid
                   THEN Append(cleaned_results, cleaned_job) ELSE cleaned_results) :
               cleaned_job \in { clean_job_data(Head(results)) } })

\* LinkedInJobScraper.save_to_csv and save_to_json: the rows written are the
\* scraper's jobs_data; nothing is written when it is empty.
NotSaved == [ written |-> FALSE, rows |-> << >> ]

save_to_file(scraper_jobs_data) ==
    IF scraper_jobs_data = << >> THEN NotSaved
    ELSE [ written |-> TRUE, rows |-> scraper_jobs_data ]

\* _process_results: the list it returns and what each file holds.  scraper_jobs_data is the list search_jobs kept and returned.
_process_results(results, config, scraper_jobs_data) ==
    LET cleaned_results ==
            IF config.remove_duplicates
            THEN remove_duplicates(clean_and_validate(results, << >>), {}, << >>)
            ELSE clean_and_validate(results, << >>)
    IN  The({ [ results |-> final,
                csv |-> IF final # << >> /\ config.save_csv
                        THEN save_to_file(scraper_jobs_data) ELSE NotSaved,
                json |-> IF final # << >> /\ config.save_json
                         THEN save_to_file(scraper_jobs_data) ELSE NotSaved ] :
              final \in { IF config.validate_data THEN cleaned_results ELSE results } })

RemoteSuffix == << " ","(","R","e","m","o","t","e",")" >>

Posting(title, job_url) == Job(title, << "A","c","m","e" >>, << "A","u","s","t","i","n",","," ","T","X" >>, job_url, Relative)

ScrapedJobs ==
    { Posting(<< "D","e","v" >>, GoodUrl),
      Posting(<< "D","e","v" >> \o RemoteSuffix, GoodUrl),
      Posting(<< "D","e","v" >> \o RemoteSuffix \o RemoteSuffix, GoodUrl),
      Posting(<< "a","b" >> \o RemoteSuffix, GoodUrl),
      Posting(<< "O","p","s" >>, TrackedUrl) }

ProcessConfigs ==
    [ validate_data : BOOLEAN, remove_duplicates : BOOLEAN,
      save_csv : BOOLEAN, save_json : BOOLEAN ]

\* What search_jobs hands to _process_results; run() calls it only for a
\* list that is not empty.
ScrapedResults ==
    { Input("results", [ results |-> results, config |-> config ]) :
        results \in SeqsUpTo(ScrapedJobs, MaxResults) \ { << >> },
        config \in ProcessConfigs }

call_process_results ==
    /\ op = "input"
    /\ arg.kind = "results"
    /\ \E out \in { _process_results(arg.value.results, arg.value.config,
                                     arg.value.results) } :
           Returned("_process_results", out)

\* Two records that differ only by a trailing "(Remote)" on the title.
RemoteTwins(a, b) ==
    /\ b.title = a.title \o RemoteSuffix
    /\ [b EXCEPT !.title = a.title] = a

PassesAfterCleaning(job) == validate_job_data(clean_job_data(job)).is_valid

Survivors(results, jobs) ==
    { k \in DOMAIN results : \E job \in jobs : signature(results[k]) = signature(clean_job_data(job)) }

\* C15: when validation and deduplication are enabled, two records of the
\* scraped list that differ only by a trailing "(Remote)" on the title and
\* pass validation have the same signature once cleaned, and exactly one
\* record of that signature is in the list _process_results returns.
C15_NoiseTwinsCollapse ==
    (/\ op = "_process_results"
     /\ arg.value.config.validate_data
     /\ arg.value.config.remove_duplicates) =>
        \A i, j \in DOMAIN arg.value.results :
            LET a == arg.value.results[i]
                b == arg.value.results[j]
            IN  (RemoteTwins(a, b) /\ PassesAfterCleaning(a) /\ PassesAfterCleaning(b)) =>
                    /\ signature(clean_job_data(a)) = signature(clean_job_data(b))
                    /\ Cardinality(Survivors(ret.results, { a, b })) = 1

\* C16: whatever file _process_results has written holds exactly the list it
\* returns, the cleaned, validated and deduplicated records.
C16_SinkGetsFinalizedList ==
    op = "_process_results" =>
        /\ ret.csv.written => ret.csv.rows = ret.results
        /\ ret.json.written => ret.json.rows = ret.results

(***************************************************************************)
(* Calls of _calculate_data_quality_score.                                 *)
(***************************************************************************)

SomeText == << "x" >>

ScoredRecords ==
    { Input("scored", job_data) :
        job_data \in [ title : { None, << >>, SomeText },
                       company : { None, << >>, SomeText },
                       location : { None, << >>, SomeText },
                       job_url : { None, << >>, SomeText },
                       posted_date : { None, << >>, SomeText },
                       job_insights : { None, << >>, SomeText },
                       salary_info : { None, SomeText },
                       applicant_count : { None, SomeText } ] }

call_calculate_data_quality_score ==
    /\ op = "input"
    /\ arg.kind = "scored"
    /\ \E out \in { _calculate_data_quality_score(arg.value) } :
           Returned("_calculate_data_quality_score", out)

\* C19: the quality score of a record lies between 0.0 and 1.0, and the
\* record with one more core field populated, the other fields unchanged,
\* scores at least as much.
C19_ScoreBoundedAndMonotone ==
    op = "_calculate_data_quality_score" =>
        /\ 0 <= ret /\ ret <= FullScore
        /\ \A f \in CoreFields :
               ~Filled(arg.value[f]) =>
                   _calculate_data_quality_score([arg.value EXCEPT ![f] = SomeText]) >= ret

\* Five core fields and both bonuses: populating the sixth reaches the cap.
C19_OneFieldBelowTheCap ==
    /\ op = "_calculate_data_quality_score"
    /\ Cardinality({ f \in CoreFields : Filled(arg.value[f]) }) = total_fields - 1
    /\ Filled(arg.value.salary_info) /\ Filled(arg.value.applicant_count)
    /\ ret = FullScore - 1

(***************************************************************************)
(* HumanBehaviorSimulator: the delays, in milliseconds.  A draw of         *)
(* random.uniform(-r, r) is given by its place in the interval, in per     *)
(* cent from -100 to 100; variance factors are per cent as well.  The      *)
(* inputs are chosen so that every product below is a whole number.        *)
(***************************************************************************)

\* max(0.5, ...)
MinimumDelay == 500

\* max(2.0, min(15.0, ...))
ReadingTimeMin == 2000

ReadingTimeMax == 15000

reading_speed_wpm == 200

Max(a, b) == IF a >= b THEN a ELSE b

\* content_length / 5 words, at reading_speed_wpm words in 60000 ms.
calculate_realistic_reading_time(content_length) ==
    LET reading_time == (content_length * 60000) \div (5 * reading_speed_wpm)
    IN  Max(ReadingTimeMin, Min(ReadingTimeMax, reading_time))

\* base_delay with its variance, and no minimum.
unfloored_delay(base_delay, variance_factor, draw) ==
    base_delay + (base_delay * variance_factor * draw) \div 10000

generate_human_like_delay(base_delay, variance_factor, draw) ==
    LET variance_range == (base_delay * variance_factor) \div 100
        variance == (variance_range * draw) \div 100
    IN  Max(MinimumDelay, base_delay + variance)

calculate_progressive_delay(requests_made, base_delay) ==
    IF requests_made <= 20 THEN base_delay
    ELSE IF requests_made <= 40 THEN (base_delay * 12) \div 10
    ELSE IF requests_made <= 60 THEN (base_delay * 15) \div 10
    ELSE base_delay * 2

\* _apply_intelligent_delay: the wait that fills the minimum interval since
\* the last request (none before the first request) and the delay slept.
\* started is last_request_timestamp > 0; time_since_last is read from the
\* clock.
_apply_intelligent_delay(config, started, time_since_last, base_delay, draw, requests_made) ==
    LET human_delay ==
            generate_human_like_delay(base_delay, config.human_variance_factor, draw)
    IN  [ additional_wait |->
              IF started /\ time_since_last < config.minimum_request_delay
              THEN config.minimum_request_delay - time_since_last ELSE 0,
          sleep |-> calculate_progressive_delay(requests_made, human_delay) ]

DelayInputs ==
    { Input("delay", v) :
        v \in [ base_delay : { -1000, 0, 300, 500, 3000, 8000 },
                variance_factor : { 0, 30, 100 },
                draw : { -100, -50, 0, 50, 100 },
                requests_made : { 0, 20, 21, 40, 41, 60, 61 },
                minimum_request_delay : { 300, 3000 } ] }

ContentLengths == { Input("content", n) : n \in { 0, 33, 34, 100, 250, 251, 10000 } }

call_calculate_realistic_reading_time ==
    /\ op = "input"
    /\ arg.kind = "content"
    /\ Returned("calculate_realistic_reading_time",
                calculate_realistic_reading_time(arg.value))

call_generate_human_like_delay ==
    /\ op = "input"
    /\ arg.kind = "delay"
    /\ Returned("generate_human_like_delay",
                generate_human_like_delay(arg.value.base_delay, arg.value.variance_factor,
                                          arg.value.draw))

\* The harvester draws base_delay from its configured range, so it is not
\* below minimum_request_delay.  The call can be made again with the same
\* draws at another reading of the clock.
call_apply_intelligent_delay ==
    /\ op \in { "input", "_apply_intelligent_delay" }
    /\ arg.kind = "delay"
    /\ arg.value.base_delay >= arg.value.minimum_request_delay
    /\ \E started \in BOOLEAN, time_since_last \in { 0, 1000, 5000 } :
           Returned("_apply_intelligent_delay",
                    _apply_intelligent_delay(
                        [ minimum_request_delay |-> arg.value.minimum_request_delay,
                          human_variance_factor |-> arg.value.variance_factor ],
                        started, time_since_last, arg.value.base_delay, arg.value.draw,
                        arg.value.requests_made))

UrlErrors ==
    { "URL must be a string", "URL must use HTTP or HTTPS scheme", "URL missing domain",
      "URL not from LinkedIn", "URL is not a job posting" }

\* C34: the validator lists no error for the job_url of a record only if
\* the URL has scheme http or https, its host is one of valid_domains and
\* its path holds /jobs/view/.
C34_AcceptedUrlIsListingOnAllowedHost ==
    (/\ op = "validate_job_data"
     /\ arg.value.job_url.form = "url"
     /\ Range(ret.errors) \cap UrlErrors = { })
        => /\ arg.value.job_url.scheme \in { "http", "https" }
           /\ Lower(arg.value.job_url.netloc) \in valid_domains
           /\ Contains(arg.value.job_url.path, ListingMarker)

(***************************************************************************)
(* Calls of _validate_job_data_quality on the records the extraction       *)
(* builds.                                                                 *)
(***************************************************************************)

\* _validate_job_data_quality: the value returned and the record as the
\* call leaves it.  The edits come after the last "return False", so a
\* rejected record is as it was.
_validate_job_data_quality(job_data) ==
    [ accepted |-> validate_job_data_quality(job_data),
      job_data |-> IF validate_job_data_quality(job_data)
                   THEN validated_job_data(job_data) ELSE job_data ]

\* The scored records of the cards whose title resolves.
ExtractedRecords ==
    { Input("extracted", extract_comprehensive_job_data(card)[1]) :
        card \in { CardDev, CardDevUpper, CardFallback, CardShort, CardSpam, CardDigits } }

call_validate_job_data_quality ==
    /\ op = "input"
    /\ arg.kind = "extracted"
    /\ \E out \in { _validate_job_data_quality(arg.value) } :
          Returned("_validate_job_data_quality", out)

\* C31: the validation step changes no field of the scored record it is
\* given, whether it accepts the record or not.
C31_ValidationLeavesRecordAlone ==
    op = "_validate_job_data_quality" => ret.job_data = arg.value

(***************************************************************************)
(* Calls of JobDataValidator.remove_duplicates.                            *)
(***************************************************************************)

Listing(title, company) ==
    Job(title, company, << "N","Y","C" >>, GoodUrl, Relative)

\* A listing, the same listing in another letter case and with blanks
\* around, a different listing, and two listings whose titles and companies
\* differ in where the "|" stands.
DuplicateCandidates ==
    { Listing(<< "D","e","v" >>, << "A","c","m","e" >>),
      Listing(<< " ","D","E","V" >>, << "a","c","m","e"," " >>),
      Listing(<< "O","p","s" >>, << "A","c","m","e" >>),
      Listing(<< "Q","A","|","I","T" >>, << "A","c","m","e" >>),
      Listing(<< "Q","A" >>, << "I","T","|","A","c","m","e" >>) }

JobLists ==
    { Input("jobs_list", jobs_list) : jobs_list \in SeqsUpTo(DuplicateCandidates, MaxResults) }

call_remove_duplicates ==
    /\ op = "input"
    /\ arg.kind = "jobs_list"
    /\ \E out \in { remove_duplicates(arg.value, { }, << >>) } :
          Returned("remove_duplicates", out)

\* The records of a list that are the first of their tuple, in list order.
RECURSIVE FirstOfEachTuple(_, _)
FirstOfEachTuple(jobs_list, seen) ==
    IF jobs_list = << >> THEN << >>
    ELSE IF TupleKey(Head(jobs_list)) \in seen
         THEN FirstOfEachTuple(Tail(jobs_list), seen)
         ELSE << Head(jobs_list) >>
                \o FirstOfEachTuple(Tail(jobs_list), seen \cup { TupleKey(Head(jobs_list)) })

\* C33: remove_duplicates returns, in input order, the first record of
\* every distinct case-folded, trimmed (title, company, location) tuple of
\* its input and nothing else, and returns its own result unchanged.
C33_FirstOfEveryTupleKept ==
    op = "remove_duplicates" =>
        /\ ret = FirstOfEachTuple(arg.value, { })
        /\ remove_duplicates(ret, { }, << >>) = ret

(***************************************************************************)
(* The specification of the calls.                                         *)
(***************************************************************************)

CallInputs ==
    CardPages \cup SelectorOutcomes \cup CleanerTexts \cup ValidatorRecords
        \cup ScrapedResults \cup ScoredRecords \cup DelayInputs \cup ContentLengths
        \cup ExtractedRecords \cup JobLists

CallInit ==
    /\ Constructed
    /\ anti_detection_system = None
    /\ headers = << >>
    /\ requests_with_profile = 0
    /\ op = "input"
    /\ arg \in CallInputs
    /\ ret = None

CallNext ==
    \/ call_extract_cards
    \/ call_extract_with_selector_fallbacks
    \/ call_find_job_cards_with_fallbacks
    \/ call_extract_text_from_card
    \/ call_clean_title
    \/ call_clean_company
    \/ call_clean_location
    \/ call_clean_summary
    \/ call_validate_job_data
    \/ call_process_results
    \/ call_calculate_data_quality_score
    \/ call_calculate_realistic_reading_time
    \/ call_generate_human_like_delay
    \/ call_apply_intelligent_delay
    \/ call_validate_job_data_quality
    \/ call_remove_duplicates

CallSpec == CallInit /\ [][CallNext]_vars

====
